---- MODULE Spec2Model ----
(***************************************************************************)
(* pdf2qa: the text chunker and parser (parser/llama_parser.py), the cost   *)
(* ledger (utils/cost_tracker.py), the statement extractor                 *)
(* (extractor/llama_extractor.py), the question/answer generator           *)
(* (qa_generator/qa_generator.py), the processing summary                  *)
(* (utils/summary_generator.py) and the pipeline orchestrator              *)
(* (pipeline.py), as one state machine with one specification per entry    *)
(* point.                                                                  *)
(*                                                                         *)
(* Strings that the code indexes are sequences of one-character strings;   *)
(* Python's 0-based positions are kept (At(text, i) is text[i]).           *)
(* Money is exact: one unit is 10^-8 USD, so that every price of the tables*)
(* is an integer per token or per page (float rounding is not modelled).   *)
(***************************************************************************)
EXTENDS Integers, Sequences, FiniteSets, TLC

VARIABLES
    \* ---- LlamaParser._chunk_text, one call
    text,            \* the text argument
    chunk_size,      \* the chunk_size argument
    chunk_overlap,   \* the chunk_overlap argument
    cpc,             \* position in _chunk_text: "idle", "call", "loop", "done"
    start,           \* the local start
    c_chunks,        \* the local chunks (the returned list once cpc = "done")
    windows,         \* history: one [start, end, chunk, cut] per cut, in order
    \* ---- the process-wide CostTracker (cost_tracker) and its file
    calls,           \* CostTracker.calls
    cost_file,       \* the content of costs.json
    now,             \* the clock read by datetime.now()
    restored,        \* history: the entries load_costs put into calls
    returned,        \* history: the costs returned by track_*_call, in order
    reported,        \* history: how the summary was last given out (returned, printed)
    \* ---- QAGenerator.generate, one call
    qpc,             \* position in generate: "idle", "batch", "questions",
                     \*   "answers", "pair", "done"
    g_statements,    \* the statements argument
    g_source,        \* the source argument
    g_job,           \* the job_id argument
    batch_size,      \* self.batch_size
    bi,              \* the loop variable i of generate (0-based batch start)
    responses,       \* the local responses of the pass in progress
    questions,       \* the questions of the current batch
    answers,         \* the answers of the current batch
    qa_pairs,        \* the local qa_pairs (the returned list once qpc = "done")
    api_log,         \* history: the completion calls issued, in order
    failed,          \* history: the passes that ended in the except branch
    \* ---- LlamaExtractor.extract, one call
    epc,             \* position in extract: "idle", "loop", "done"
    e_chunks,        \* the chunks argument
    statements,      \* the local statements (the returned list once epc = "done")
    ex_i,            \* the number of chunks the loop of extract has gone through
    e_log,           \* history: per chunk gone through, the call's outcome and
                     \*   the statements the chunk added
    next_id,         \* the next fresh uuid of a Statement
    \* ---- Pipeline.run, one call
    ppc,             \* position in run, or "returned", "raised", "hung"
    skip_parse,      \* the run arguments
    skip_extract,
    skip_qa,
    job_id,
    document,        \* the input file: does it exist, its file type
    parser_config,   \* the parser's chunk_size and chunk_overlap
    chunks,          \* the local chunks of run
    artifacts,       \* the output files written so far, by kind
    summary,         \* the ProcessingSummary of the run
    events,          \* history: the stages and exports that completed, in order
    \* ---- Pipeline._get_output_path
    out_path,        \* the configured output path
    derived,         \* history: the job ids handed in and the paths returned
    \* ---- the "pdf2qa" logger
    handlers,        \* logger.handlers
    log_level,       \* logger.level
    setup_calls,     \* history: the verbose argument of each setup_logging call
    \* ---- two processes on one ledger file
    disk,            \* the ledger file the processes share
    proc_pc,         \* per process: "new", "running", "writing", "saved"
    proc_calls,      \* per process: its CostTracker's calls
    proc_loaded,     \* history, per process: the calls load_costs restored
    writes,          \* history: the processes whose json.dump completed, in order
    wall             \* the wall clock the timestamps are taken from

chunkVars == <<text, chunk_size, chunk_overlap, cpc, start, c_chunks, windows>>
ledgerVars == <<calls, cost_file, now, restored, returned, reported>>

qaVars == <<qpc, g_statements, g_source, g_job, batch_size, bi, responses,
           questions, answers, qa_pairs, api_log, failed>>

extractVars == <<epc, e_chunks, statements, ex_i, e_log, next_id>>
pipeVars == <<ppc, skip_parse, skip_extract, skip_qa, job_id, document, parser_config,
             chunks, artifacts, summary, events>>

pathVars == <<out_path, derived>>
logVars == <<handlers, log_level, setup_calls>>
procVars == <<disk, proc_pc, proc_calls, proc_loaded, writes, wall>>
\* what only the path derivation, setup_logging and the two processes touch
auxVars == <<pathVars, logVars, procVars>>

vars == <<chunkVars, ledgerVars, qaVars, extractVars, pipeVars, auxVars>>

nonChunkVars == <<ledgerVars, qaVars, extractVars, pipeVars, auxVars>>
nonLedgerVars == <<chunkVars, qaVars, extractVars, pipeVars, auxVars>>
\* what the generator never touches, the ledger apart
nonQAVars == <<chunkVars, extractVars, pipeVars, auxVars>>

(***************************************************************************)
(* Bounds                                                                  *)
(***************************************************************************)
MaxLen == 6          \* longest text handed to the chunker
MaxChunkSize == 3    \* largest chunk_size
MaxOverlap == 4      \* largest chunk_overlap (reaches past MaxChunkSize)
MaxCalls == 2        \* track_*_call operations followed in one process
MaxStatements == 4   \* longest statement list handed to generate
MaxChunks == 2       \* longest chunk list handed to extract
MaxFinalize == 2     \* calls of finalize on one summary
MaxJobLen == 3       \* longest job id
MaxDerive == 2       \* calls of _get_output_path
MaxSetup == 6        \* calls of setup_logging
MaxOwn == 2         \* entries a process records itself

\* one letter, one sentence terminator, one whitespace character
Alphabet == {"a", ".", " "}

\* the sentence end is searched in the last SentenceWindow characters
SentenceWindow == 100

\* texts longer than the sentence search window: EdgeLen free characters,
\* SentenceWindow letters, EdgeLen free characters
EdgeLen == 2         \* free characters at each end of a long text

NoneVal == "None"

Max(a, b) == IF a >= b THEN a ELSE b
Min(a, b) == IF a <= b THEN a ELSE b

RECURSIVE SeqsUpTo(_)
SeqsUpTo(n) ==
    IF n = 0 THEN {<<>>}
    ELSE LET shorter == SeqsUpTo(n - 1)
         IN shorter \cup {Append(s, c) : s \in {t \in shorter : Len(t) = n - 1}, c \in Alphabet}

Texts == SeqsUpTo(MaxLen)

Letters(n) == [i \in 1..n |-> "a"]

LongTexts ==
    {pre \o Letters(SentenceWindow) \o suf :
        pre \in {t \in SeqsUpTo(EdgeLen) : Len(t) = EdgeLen},
        suf \in {t \in SeqsUpTo(EdgeLen) : Len(t) = EdgeLen}}

(***************************************************************************)
(* LlamaParser._chunk_text                                                 *)
(***************************************************************************)
SentenceTerminators == {".", "!", "?"}
Whitespace == {" ", "\t", "\n"}

At(s, i) == s[i + 1]

\* s[a:b] for 0 <= a, 0 <= b
Slice(s, a, b) == SubSeq(s, a + 1, Min(b, Len(s)))

RECURSIVE LStrip(_)
LStrip(s) == IF s # <<>> /\ Head(s) \in Whitespace THEN LStrip(Tail(s)) ELSE s

RECURSIVE RStrip(_)
RStrip(s) ==
    IF s # <<>> /\ s[Len(s)] \in Whitespace THEN RStrip(SubSeq(s, 1, Len(s) - 1)) ELSE s

\* str.strip()
Strip(s) == RStrip(LStrip(s))

\* for i in range(end - 1, search_start - 1, -1): first terminator found, else -1
RECURSIVE FindSentenceEnd(_, _, _)
FindSentenceEnd(s, i, search_start) ==
    IF i < search_start THEN -1
    ELSE IF At(s, i) \in SentenceTerminators THEN i + 1
    ELSE FindSentenceEnd(s, i - 1, search_start)

\* while end > start and text[end] not in ' \t\n': end -= 1
RECURSIVE FindWordBoundary(_, _, _)
FindWordBoundary(s, end, st) ==
    IF end > st /\ At(s, end) \notin Whitespace
    THEN FindWordBoundary(s, end - 1, st)
    ELSE end

\* a plausible slip in the fallback cut: one character too many
CutEnd_long(s, st, size) ==
    LET end == st + size
    IN  IF end < Len(s)
        THEN LET search_start == Max(st + size - SentenceWindow, st)
                 sentence_end == FindSentenceEnd(s, end - 1, search_start)
             IN  IF sentence_end > st THEN sentence_end
                 ELSE LET e == FindWordBoundary(s, end, st)
                      IN  IF e = st THEN st + size + 1 ELSE e
        ELSE end

\* the value of end when the slice is taken (lines 77-98)
CutEnd(s, st, size) ==
    LET end == st + size
    IN  IF end < Len(s)
        THEN LET search_start == Max(st + size - SentenceWindow, st)
                 sentence_end == FindSentenceEnd(s, end - 1, search_start)
             IN  IF sentence_end > st THEN sentence_end
                 ELSE LET e == FindWordBoundary(s, end, st)
                      IN  IF e = st THEN st + size ELSE e
        ELSE end

\* which branch of lines 80-98 chose the cut: history only
CutKind(s, st, size) ==
    LET end == st + size
    IN  IF end < Len(s)
        THEN LET search_start == Max(st + size - SentenceWindow, st)
                 sentence_end == FindSentenceEnd(s, end - 1, search_start)
             IN  IF sentence_end > st THEN "sentence"
                 ELSE IF FindWordBoundary(s, end, st) = st THEN "raw" ELSE "word"
        ELSE "last"

\* a plausible slip in the advance: the next window starts one past the cut
NextStart_gap(end, overlap) ==
    IF end - overlap <= 0 THEN end + 1 ELSE end - overlap + 1

\* start = end - chunk_overlap; if start <= 0: start = end (lines 105-107)
NextStart(end, overlap) ==
    IF end - overlap <= 0 THEN end ELSE end - overlap

\* if chunk: chunks.append(chunk)
AppendIfNonEmpty(acc, chunk) ==
    IF chunk # <<>> THEN Append(acc, chunk) ELSE acc

\* sizes around the sentence search window, for the long texts
LongChunkSizes == {SentenceWindow + 1, SentenceWindow + EdgeLen}
LongOverlaps == {0, EdgeLen}

\* the loop came back to a start position it had already cut from; text and
\* sizes never change and the body is a function of start, so the iterations
\* from there on repeat for ever
StartRevisited ==
    \E i, j \in 1..Len(windows) : i < j /\ windows[i].start = windows[j].start

ChunkInit ==
    /\ \/ /\ text \in Texts
          /\ chunk_size \in 1..MaxChunkSize
          /\ chunk_overlap \in 0..MaxOverlap
       \/ /\ text \in LongTexts
          /\ chunk_size \in LongChunkSizes
          /\ chunk_overlap \in LongOverlaps
    /\ cpc = "call"
    /\ start = 0
    /\ c_chunks = <<>>
    /\ windows = <<>>

ChunkIdle ==
    /\ text = <<>>
    /\ chunk_size = 1
    /\ chunk_overlap = 0
    /\ cpc = "idle"
    /\ start = 0
    /\ c_chunks = <<>>
    /\ windows = <<>>

\* lines 70-71: a text that fits is returned as it is
ChunkReturnWhole ==
    /\ cpc = "call"
    /\ Len(text) <= chunk_size
    /\ c_chunks' = <<text>>
    /\ windows' = <<[start |-> 0, end |-> Len(text), chunk |-> text, cut |-> "whole"]>>
    /\ cpc' = "done"
    /\ UNCHANGED <<text, chunk_size, chunk_overlap, start>>
    /\ UNCHANGED nonChunkVars

\* lines 73-74
ChunkEnterLoop ==
    /\ cpc = "call"
    /\ Len(text) > chunk_size
    /\ c_chunks' = <<>>
    /\ start' = 0
    /\ cpc' = "loop"
    /\ UNCHANGED <<text, chunk_size, chunk_overlap, windows>>
    /\ UNCHANGED nonChunkVars

\* lines 76-107: one iteration of the while loop (followed up to the first
\* repeated start position: from there the run repeats itself)
ChunkIterate ==
    /\ cpc = "loop"
    /\ start < Len(text)
    /\ ~StartRevisited
    /\ LET end == CutEnd(text, start, chunk_size)
           chunk == Strip(Slice(text, start, end))
       IN  /\ c_chunks' = AppendIfNonEmpty(c_chunks, chunk)
           /\ windows' = Append(windows, [start |-> start, end |-> end, chunk |-> chunk,
                                         cut |-> CutKind(text, start, chunk_size)])
           /\ start' = NextStart(end, chunk_overlap)
    /\ UNCHANGED <<text, chunk_size, chunk_overlap, cpc>>
    /\ UNCHANGED nonChunkVars

\* lines 76, 109: the loop condition fails, the list is returned
ChunkReturn ==
    /\ cpc = "loop"
    /\ start >= Len(text)
    /\ cpc' = "done"
    /\ UNCHANGED <<text, chunk_size, chunk_overlap, start, c_chunks, windows>>
    /\ UNCHANGED nonChunkVars


(***************************************************************************)
(* Claims about the chunker, checked under ChunkSpec                       *)
(***************************************************************************)
\* C3: for 0 <= overlap < max_size the chunking loop terminates, stated on
\* finite runs: the loop never returns to a start position it has already
\* processed (a deterministic loop over 0 <= start < len(text) terminates
\* exactly when no loop-head value of start recurs).
C3_TerminatesSmallOverlap ==
    (chunk_overlap < chunk_size) => ~StartRevisited

\* C4: for a text longer than max_size and overlap >= max_size the loop
\* still terminates (start keeps moving forward until it passes the end of
\* the text), stated on finite runs as for C3: no start position recurs.
C4_TerminatesLargeOverlap ==
    (chunk_overlap >= chunk_size /\ Len(text) > chunk_size) => ~StartRevisited

\* position i of the text is inside window w and inside the segment kept
\* from it (the segment is the window's slice without boundary whitespace)
InSegment(i, w) ==
    LET piece == Slice(text, w.start, w.end)
        lo == IF w.chunk = piece THEN w.start
              ELSE w.start + (Len(piece) - Len(LStrip(piece)))
        hi == lo + Len(w.chunk)
    IN  /\ w.chunk # <<>>
        /\ w.start <= lo /\ hi <= w.end
        /\ lo <= i /\ i < hi
        /\ Slice(text, lo, hi) = w.chunk

WindowsShared(w1, w2) == Min(w1.end, w2.end) - Max(w1.start, w2.start)

\* C5: for 0 <= overlap < max_size, when chunking returns, the cut windows
\* start at 0, each next window starts no later than the previous one ends,
\* the last one reaches len(text), every non-whitespace character is in a
\* returned segment, and consecutive windows share at most overlap
\* characters.
C5_WindowsCoverText ==
    (cpc = "done" /\ chunk_overlap < chunk_size) =>
        /\ windows # <<>>
        /\ windows[1].start = 0
        /\ \A k \in 1..(Len(windows) - 1) :
              /\ windows[k + 1].start <= windows[k].end
              /\ WindowsShared(windows[k], windows[k + 1]) <= chunk_overlap
        /\ windows[Len(windows)].end >= Len(text)
        /\ \A i \in 0..(Len(text) - 1) :
              At(text, i) \notin Whitespace =>
                  \E k \in 1..Len(windows) :
                      /\ InSegment(i, windows[k])
                      /\ \E n \in 1..Len(c_chunks) : c_chunks[n] = windows[k].chunk

\* a returned split of at least three windows with a real overlap, one of
\* them trimmed and one discarded as empty
C5_Witness ==
    /\ cpc = "done"
    /\ Len(text) <= MaxLen
    /\ 0 < chunk_overlap /\ chunk_overlap < chunk_size
    /\ Len(windows) >= 3
    /\ \E k \in 1..Len(windows) :
          /\ windows[k].chunk # <<>>
          /\ windows[k].chunk # Slice(text, windows[k].start, windows[k].end)
    /\ \E k \in 1..Len(windows) : windows[k].chunk = <<>>
    /\ \E k \in 1..(Len(windows) - 1) :
          WindowsShared(windows[k], windows[k + 1]) = chunk_overlap

\* C6: every segment in the chunker's list has length <= max_size, whichever
\* cut produced it, and no segment of a text longer than max_size is empty.
C6_SegmentsBounded ==
    \A n \in 1..Len(c_chunks) :
        /\ Len(c_chunks[n]) <= chunk_size
        /\ (Len(text) > chunk_size => c_chunks[n] # <<>>)

\* a returned split in which all three kinds of cut were taken and kept
C6_Witness ==
    /\ cpc = "done"
    /\ Len(text) > chunk_size
    /\ \A kind \in {"sentence", "word", "raw"} :
          \E k \in 1..Len(windows) :
              /\ windows[k].cut = kind
              /\ windows[k].chunk # <<>>
              /\ \E n \in 1..Len(c_chunks) : c_chunks[n] = windows[k].chunk

\* a metadata value: an int, a string, None, a list of ints, or a dict with
\* string keys
IntVal(n) == [t |-> "int", v |-> n]
StrVal(chars) == [t |-> "str", v |-> chars]
NoneMeta == [t |-> "none", v |-> 0]
ListVal(q) == [t |-> "list", v |-> q]
DictVal(d) == [t |-> "dict", v |-> d]

(***************************************************************************)
(* CostTracker (utils/cost_tracker.py)                                     *)
(***************************************************************************)
\* OPENAI_PRICING, in units of 10^-8 USD per token (the table gives USD per
\* 1,000,000 tokens)
OPENAI_PRICING ==
    [m \in {"gpt-3.5-turbo", "gpt-4o-mini", "gpt-4o", "gpt-4", "gpt-4-turbo"} |->
        CASE m = "gpt-3.5-turbo" -> [input |-> 50, output |-> 150]
          [] m = "gpt-4o-mini"   -> [input |-> 15, output |-> 60]
          [] m = "gpt-4o"        -> [input |-> 250, output |-> 1000]
          [] m = "gpt-4"         -> [input |-> 3000, output |-> 6000]
          [] m = "gpt-4-turbo"   -> [input |-> 1000, output |-> 3000]]

\* LLAMAPARSE_PRICING["per_page"], in units of 10^-8 USD
LLAMAPARSE_PER_PAGE == 300000

\* Python truthiness of an Optional[str]
Truthy(v) == v # NoneVal /\ v # ""

calculate_openai_cost(model, input_tokens, output_tokens) ==
    LET m == IF model \in DOMAIN OPENAI_PRICING THEN model ELSE "gpt-3.5-turbo"
        pricing == OPENAI_PRICING[m]
    IN  input_tokens * pricing.input + output_tokens * pricing.output

calculate_llamaparse_cost(pages) == pages * LLAMAPARSE_PER_PAGE

\* a plausible slip: the stored cost prices the input tokens only
OpenAIEntry_inputonly(model, input_tokens, output_tokens, operation, job, metadata, ts) ==
    [timestamp |-> ts, service |-> "openai", operation |-> operation, model |-> model,
     input_tokens |-> input_tokens, output_tokens |-> output_tokens,
     total_tokens |-> input_tokens + output_tokens,
     cost_usd |-> calculate_openai_cost(model, input_tokens, 0),
     job_id |-> job, metadata |-> metadata]

\* the APICall built by track_openai_call
OpenAIEntry(model, input_tokens, output_tokens, operation, job, metadata, ts) ==
    [timestamp |-> ts, service |-> "openai", operation |-> operation, model |-> model,
     input_tokens |-> input_tokens, output_tokens |-> output_tokens,
     total_tokens |-> input_tokens + output_tokens,
     cost_usd |-> calculate_openai_cost(model, input_tokens, output_tokens),
     job_id |-> job, metadata |-> metadata]

\* the APICall built by track_llamaparse_call
LlamaParseEntry(pages, job, metadata, ts) ==
    [timestamp |-> ts, service |-> "llamaparse", operation |-> "parse", model |-> NoneVal,
     input_tokens |-> pages, output_tokens |-> 0, total_tokens |-> pages,
     cost_usd |-> calculate_llamaparse_cost(pages),
     job_id |-> job, metadata |-> metadata]

\* model_key = call.model or f"{call.service}_default"
ModelKey(call) == IF Truthy(call.model) THEN call.model ELSE call.service \o "_default"

EmptyDict == [k \in {} |-> 0]

\* d[key] with cost and calls (and tokens, for the model partitions) of one
\* more call added, the entry being created at zero when key is new
AddCall(d, key, call, with_tokens) ==
    LET old == IF key \in DOMAIN d THEN d[key]
               ELSE IF with_tokens THEN [cost |-> 0, calls |-> 0, tokens |-> 0]
                    ELSE [cost |-> 0, calls |-> 0]
        new == IF with_tokens
               THEN [cost |-> old.cost + call.cost_usd, calls |-> old.calls + 1,
                     tokens |-> old.tokens + call.total_tokens]
               ELSE [cost |-> old.cost + call.cost_usd, calls |-> old.calls + 1]
    IN  [k \in DOMAIN d \cup {key} |-> IF k = key THEN new ELSE d[k]]

\* a plausible slip: the model partition is skipped when the call has no model
SummaryStep_nomodel(sm, call) ==
    [total_cost |-> sm.total_cost + call.cost_usd,
     total_calls |-> sm.total_calls,
     by_service |-> AddCall(sm.by_service, call.service, call, FALSE),
     by_model |-> IF Truthy(call.model)
                  THEN AddCall(sm.by_model, ModelKey(call), call, TRUE)
                  ELSE sm.by_model,
     by_job |-> IF Truthy(call.job_id)
                THEN AddCall(sm.by_job, call.job_id, call, FALSE)
                ELSE sm.by_job]

\* a plausible slip: a call without job id is filed under the job "None"
SummaryStep_nonejob(sm, call) ==
    [total_cost |-> sm.total_cost + call.cost_usd,
     total_calls |-> sm.total_calls,
     by_service |-> AddCall(sm.by_service, call.service, call, FALSE),
     by_model |-> AddCall(sm.by_model, ModelKey(call), call, TRUE),
     by_job |-> AddCall(sm.by_job, call.job_id, call, FALSE)]

\* the body of the loop of get_summary (lines 150-173)
SummaryStep(sm, call) ==
    [total_cost |-> sm.total_cost + call.cost_usd,
     total_calls |-> sm.total_calls,
     by_service |-> AddCall(sm.by_service, call.service, call, FALSE),
     by_model |-> AddCall(sm.by_model, ModelKey(call), call, TRUE),
     by_job |-> IF Truthy(call.job_id)
                THEN AddCall(sm.by_job, call.job_id, call, FALSE)
                ELSE sm.by_job]

RECURSIVE SummaryLoop(_, _, _)
SummaryLoop(sm, cs, i) ==
    IF i > Len(cs) THEN sm
    ELSE SummaryLoop(SummaryStep(sm, cs[i]), cs, i + 1)

\* CostTracker.get_summary over the call list cs
get_summary(cs) ==
    SummaryLoop([total_cost |-> 0, total_calls |-> Len(cs),
                 by_service |-> EmptyDict, by_model |-> EmptyDict, by_job |-> EmptyDict],
                cs, 1)

\* the file states: no file, a file json.load rejects, or the JSON object
\* written by save_costs
MissingFile == [kind |-> "missing"]
CorruptFile == [kind |-> "corrupt"]
\* JSON values: null, number, string, array, object
JNull == [j |-> "null", v |-> 0]
JNumber(n) == [j |-> "number", v |-> n]
JString(x) == [j |-> "string", v |-> x]
JArray(q) == [j |-> "array", v |-> q]
JObject(d) == [j |-> "object", v |-> d]

\* json.dump of a metadata value: None is written as null, an int as a number,
\* a str as a string, a list as an array, a dict as an object
JsonOfItem(x) ==
    CASE x.t = "none" -> JNull
      [] x.t = "int"  -> JNumber(x.v)
      [] x.t = "str"  -> JString(x.v)
      [] x.t = "list" -> JArray([i \in DOMAIN x.v |-> JNumber(x.v[i])])

JsonOf(x) ==
    IF x.t = "dict" THEN JObject([k \in DOMAIN x.v |-> JsonOfItem(x.v[k])])
    ELSE JsonOfItem(x)

\* json.load of a value written by json.dump
PyOfItem(y) ==
    CASE y.j = "null"   -> NoneMeta
      [] y.j = "number" -> IntVal(y.v)
      [] y.j = "string" -> StrVal(y.v)
      [] y.j = "array"  -> ListVal([i \in DOMAIN y.v |-> y.v[i].v])

PyOf(y) ==
    IF y.j = "object" THEN DictVal([k \in DOMAIN y.v |-> PyOfItem(y.v[k])])
    ELSE PyOfItem(y)

\* an Optional[str] field written by json.dump, and read back
JsonOfOptStr(x) == IF x = NoneVal THEN JNull ELSE JString(x)
OptStrOf(y) == IF y.j = "null" THEN NoneVal ELSE y.v

\* a plausible slip: the metadata is left out of the saved entry
CallJson_nometadata(call) ==
    [timestamp |-> JString(call.timestamp), service |-> JString(call.service),
     operation |-> JString(call.operation), model |-> JsonOfOptStr(call.model),
     input_tokens |-> JNumber(call.input_tokens),
     output_tokens |-> JNumber(call.output_tokens),
     total_tokens |-> JNumber(call.total_tokens), cost_usd |-> JNumber(call.cost_usd),
     job_id |-> JsonOfOptStr(call.job_id), metadata |-> JNull]

\* asdict(call) as json.dump writes it (line 70, 74)
CallJson(call) ==
    [timestamp |-> JString(call.timestamp), service |-> JString(call.service),
     operation |-> JString(call.operation), model |-> JsonOfOptStr(call.model),
     input_tokens |-> JNumber(call.input_tokens),
     output_tokens |-> JNumber(call.output_tokens),
     total_tokens |-> JNumber(call.total_tokens), cost_usd |-> JNumber(call.cost_usd),
     job_id |-> JsonOfOptStr(call.job_id), metadata |-> JsonOf(call.metadata)]

\* APICall(**call) on an object read by json.load (line 60)
CallOf(obj) ==
    [timestamp |-> obj.timestamp.v, service |-> obj.service.v,
     operation |-> obj.operation.v, model |-> OptStrOf(obj.model),
     input_tokens |-> obj.input_tokens.v, output_tokens |-> obj.output_tokens.v,
     total_tokens |-> obj.total_tokens.v, cost_usd |-> obj.cost_usd.v,
     job_id |-> OptStrOf(obj.job_id), metadata |-> PyOf(obj.metadata)]

\* the dict of get_summary as json.dump writes it: every figure a number,
\* every partition an object keyed by service, model or job
PartitionJson(d) ==
    JObject([k \in DOMAIN d |-> JObject([f \in DOMAIN d[k] |-> JNumber(d[k][f])])])

SummaryJson(sm) ==
    JObject([total_cost |-> JNumber(sm.total_cost),
             total_calls |-> JNumber(sm.total_calls),
             by_service |-> PartitionJson(sm.by_service),
             by_model |-> PartitionJson(sm.by_model),
             by_job |-> PartitionJson(sm.by_job)])

JsonFile(cs) ==
    [kind |-> "json",
     calls |-> [i \in 1..Len(cs) |-> CallJson(cs[i])],
     summary |-> SummaryJson(get_summary(cs))]

\* load_costs: the list it leaves in self.calls
load_costs(file) ==
    IF file.kind = "json" THEN [i \in 1..Len(file.calls) |-> CallOf(file.calls[i])]
    ELSE <<>>

\* inputs of the record operations
Models == {"gpt-4o", "local-model"}
CallMetadata == DictVal(("text_length" :> IntVal(5)) @@ ("pages" :> ListVal(<<4, 5>>)))
Usages == {[prompt_tokens |-> 1000, completion_tokens |-> 500]}
JobIds == {NoneVal, "jobA", "jobB"}
PageCounts == {2}

\* call lists an earlier process can have saved
SavedLedgers ==
    {<<>>,
     <<LlamaParseEntry(2, "jobA", NoneMeta, 1)>>,
     <<LlamaParseEntry(1, "jobB", NoneMeta, 1),
       OpenAIEntry("gpt-4o", 1000, 500, "question_generation", "jobB",
                   DictVal("batch_size" :> IntVal(5)), 2)>>}

InitialFiles == {MissingFile, CorruptFile} \cup {JsonFile(cs) : cs \in SavedLedgers}

\* the later clock readings are all after the saved timestamps
FirstNow == 3

\* CostTracker.__init__ (lines 48-52)
LedgerInitFrom(files) ==
    /\ cost_file \in files
    /\ calls = load_costs(cost_file)
    /\ restored = load_costs(cost_file)
    /\ returned = <<>>
    /\ reported = <<>>
    /\ now = FirstNow

LedgerInit == LedgerInitFrom(InitialFiles)

LedgerIdle ==
    /\ cost_file = MissingFile
    /\ calls = <<>>
    /\ restored = <<>>
    /\ returned = <<>>
    /\ reported = <<>>
    /\ now = FirstNow

\* track_openai_call (lines 94-116)
TrackOpenAICall ==
    /\ Len(returned) < MaxCalls
    /\ \E model \in Models, usage \in Usages, job \in JobIds :
          LET call == OpenAIEntry(model, usage.prompt_tokens, usage.completion_tokens,
                                  "chat_completion", job, CallMetadata, now)
          IN  /\ calls' = Append(calls, call)
              /\ returned' = Append(returned,
                    calculate_openai_cost(model, usage.prompt_tokens, usage.completion_tokens))
    /\ now' = now + 1
    /\ UNCHANGED <<cost_file, restored, reported>>
    /\ UNCHANGED nonLedgerVars

\* a record operation that overwrites the newest entry instead of appending
TrackLlamaParseCall_overwrites ==
    /\ Len(returned) < MaxCalls
    /\ \E pages \in PageCounts, job \in JobIds :
          /\ calls' = IF calls = <<>>
                       THEN <<LlamaParseEntry(pages, job, NoneMeta, now)>>
                       ELSE [calls EXCEPT ![Len(calls)] =
                                LlamaParseEntry(pages, job, NoneMeta, now)]
          /\ returned' = Append(returned, calculate_llamaparse_cost(pages))
    /\ now' = now + 1
    /\ UNCHANGED <<cost_file, restored, reported>>
    /\ UNCHANGED nonLedgerVars

\* track_llamaparse_call (lines 118-138)
TrackLlamaParseCall ==
    /\ Len(returned) < MaxCalls
    /\ \E pages \in PageCounts, job \in JobIds :
          /\ calls' = Append(calls, LlamaParseEntry(pages, job, NoneMeta, now))
          /\ returned' = Append(returned, calculate_llamaparse_cost(pages))
    /\ now' = now + 1
    /\ UNCHANGED <<cost_file, restored, reported>>
    /\ UNCHANGED nonLedgerVars

\* save_costs (lines 66-77): the file is rewritten, or the write raises (before
\* or after the file was truncated) and the error is only logged
SaveCosts ==
    /\ cost_file' \in {JsonFile(calls), cost_file, CorruptFile}
    /\ cost_file' # cost_file
    /\ UNCHANGED <<calls, now, restored, returned, reported>>
    /\ UNCHANGED nonLedgerVars

\* get_summary (lines 140-175) called by a client: get_summary(calls) is
\* computed and handed back; the ledger is only read
GetSummary ==
    /\ reported' = <<"returned">>
    /\ reported' # reported
    /\ UNCHANGED <<calls, cost_file, now, restored, returned>>
    /\ UNCHANGED nonLedgerVars

\* print_summary (lines 177-203): the figures of get_summary(calls) are printed
PrintSummary ==
    /\ reported' = <<"printed">>
    /\ reported' # reported
    /\ UNCHANGED <<calls, cost_file, now, restored, returned>>
    /\ UNCHANGED nonLedgerVars

(***************************************************************************)
(* Claims about the ledger, checked under LedgerSpec                       *)
(***************************************************************************)
RECURSIVE SumSeq(_)
SumSeq(q) == IF q = <<>> THEN 0 ELSE Head(q) + SumSeq(Tail(q))

RECURSIVE SumCost(_)
SumCost(cs) == IF cs = <<>> THEN 0 ELSE Head(cs).cost_usd + SumCost(Tail(cs))

RECURSIVE SumField(_, _, _)
SumField(d, keys, field) ==
    IF keys = {} THEN 0
    ELSE LET k == CHOOSE x \in keys : TRUE
         IN  d[k][field] + SumField(d, keys \ {k}, field)

PartCost(d) == SumField(d, DOMAIN d, "cost")
PartCalls(d) == SumField(d, DOMAIN d, "calls")

\* C7: after any sequence of record operations, totals().total_cost is the
\* sum of the costs the record operations returned and total_calls is the
\* number of record operations, the entries restored at start being counted
\* on top of both.
C7_TotalsMatchRecords ==
    LET totals == get_summary(calls)
    IN  /\ totals.total_cost = SumCost(restored) + SumSeq(returned)
        /\ totals.total_calls = Len(restored) + Len(returned)

\* completion and parsing calls were recorded on top of restored entries
C7_Witness ==
    /\ restored # <<>>
    /\ Len(returned) = MaxCalls
    /\ \E i, j \in 1..Len(calls) :
          /\ i > Len(restored) /\ j > i
          /\ calls[i].service = "openai" /\ calls[i].cost_usd > 0
          /\ calls[j].service = "llamaparse"

\* C8: every entry is counted in exactly one by_service partition and one
\* by_model partition, an entry without model under "<service>_default"; in
\* both partitions the costs sum to total_cost and the call counts to
\* total_calls.
C8_ServiceAndModelPartitions ==
    LET totals == get_summary(calls)
        KeyOf(c) == IF c.model \in {NoneVal, ""}
                    THEN (IF c.service = "openai" THEN "openai_default"
                          ELSE "llamaparse_default")
                    ELSE c.model
    IN  /\ DOMAIN totals.by_service = {calls[i].service : i \in 1..Len(calls)}
        /\ \A sv \in DOMAIN totals.by_service :
              totals.by_service[sv].calls =
                  Cardinality({i \in 1..Len(calls) : calls[i].service = sv})
        /\ DOMAIN totals.by_model = {KeyOf(calls[i]) : i \in 1..Len(calls)}
        /\ \A m \in DOMAIN totals.by_model :
              totals.by_model[m].calls =
                  Cardinality({i \in 1..Len(calls) : KeyOf(calls[i]) = m})
        /\ PartCost(totals.by_service) = totals.total_cost
        /\ PartCalls(totals.by_service) = totals.total_calls
        /\ PartCost(totals.by_model) = totals.total_cost
        /\ PartCalls(totals.by_model) = totals.total_calls

\* both services and at least two model keys, one of them the default key
C8_Witness ==
    /\ Len(returned) >= 2
    /\ Cardinality(DOMAIN get_summary(calls).by_service) = 2
    /\ "llamaparse_default" \in DOMAIN get_summary(calls).by_model
    /\ Cardinality(DOMAIN get_summary(calls).by_model) >= 3

\* C9: the costs of the by_job partitions sum to total_cost.
C9_JobPartitionsSumToTotal ==
    PartCost(get_summary(calls).by_job) = get_summary(calls).total_cost

\* C9, entries without job id set apart: the costs (and call counts) of the
\* by_job partitions sum to the
\* cost (and number) of the entries that carry a non-empty job id; entries
\* without job id are in no job partition.
C9_JobPartitionsSumToJobEntries ==
    LET totals == get_summary(calls)
        withJob == {i \in 1..Len(calls) : calls[i].job_id \notin {NoneVal, ""}}
        JobCost(i) == IF i \in withJob THEN calls[i].cost_usd ELSE 0
    IN  /\ PartCost(totals.by_job) = SumSeq([i \in 1..Len(calls) |-> JobCost(i)])
        /\ PartCalls(totals.by_job) = Cardinality(withJob)
        /\ DOMAIN totals.by_job = {calls[i].job_id : i \in withJob}

\* entries of two jobs and a priced entry without job id were recorded
C9_Witness ==
    /\ Len(returned) = MaxCalls
    /\ Cardinality(DOMAIN get_summary(calls).by_job) = 2
    /\ \E i \in 1..Len(calls) :
          /\ i > Len(restored)
          /\ calls[i].job_id = NoneVal
          /\ calls[i].cost_usd > 0

\* C13: the ledger is append-only. Every step of a record, summary, print or
\* save operation leaves the call list at least as long as it was, and every
\* entry it held before the step is still there, unmodified, at the same
\* position.
C13_LedgerAppendOnly ==
    [][/\ Len(calls') >= Len(calls)
       /\ SubSeq(calls', 1, Len(calls)) = calls]_vars

\* restored entries, two record operations, a summary printed and the file
\* saved afterwards
C13_Witness ==
    /\ restored # <<>>
    /\ Len(returned) >= 2
    /\ Len(calls) = Len(restored) + Len(returned)
    /\ reported = <<"printed">>
    /\ cost_file = JsonFile(calls)

\* C14: save followed by load is a round trip. Whenever save_costs has
\* written the file, a ledger constructed from that file holds exactly the
\* entries of the ledger that wrote it, all fields equal and in the same
\* order, and the summary stored in the file is the summary computed from the
\* stored calls.
C14_SaveLoadRoundTrip ==
    [][(cost_file'.kind = "json" /\ cost_file' # cost_file) =>
          LET loaded == load_costs(cost_file')
          IN  /\ loaded = calls
              /\ cost_file'.summary = SummaryJson(get_summary(loaded))]_vars

\* a saved ledger that holds an entry without model and job id and an entry
\* with a metadata dict
C14_Witness ==
    /\ cost_file = JsonFile(calls)
    /\ Len(returned) = MaxCalls
    /\ \E i, k \in 1..Len(calls) :
          /\ calls[i].model = NoneVal
          /\ calls[i].job_id = NoneVal
          /\ calls[i].metadata = NoneMeta
          /\ calls[k].metadata.t = "dict"
          /\ calls[k].job_id # NoneVal

(***************************************************************************)
(* QAGenerator (qa_generator/qa_generator.py)                              *)
(***************************************************************************)
\* what one chat.completions.create call can do: raise, or return a response
\* with or without usage figures whose first choice is missing (NoChoice) or
\* has the given content
NoChoice == "NoChoice"
Raise == [kind |-> "raise"]
Response(content, usage) == [kind |-> "response", content |-> content, usage |-> usage]

QuestionText == <<"Q">>
AnswerText == <<"A">>

CompletionOutcomes(reply) ==
    {Raise,
     Response(NoChoice, FALSE),
     Response(<<>>, TRUE),
     Response(<<" ">>, TRUE),
     Response(reply \o <<" ">>, TRUE),
     Response(reply, FALSE)}

\* the outcomes drawn when generate runs inside a pipeline run
RunCompletionOutcomes(reply) ==
    {Raise, Response(reply, TRUE)}

\* the usage figures of a response that has them
GenUsage == [prompt_tokens |-> 1000, completion_tokens |-> 500]

GenModel == "gpt-3.5-turbo"

\* batch = statements[i:i+self.batch_size]
Batch == Slice(g_statements, bi, bi + batch_size)

\* lines 185-190 and 265-270: the string taken from one stored response
\* (None stands for the answer call that was not made)
ExtractedText(r) ==
    IF r # NoneVal /\ r # NoChoice /\ r # <<>> THEN Strip(r) ELSE <<>>

\* what a call gave, as the history keeps it: did it raise, and the string
\* lines 185-190 (265-270) take from its response
Reply(r) ==
    [raised |-> r.kind = "raise",
     text |-> IF r.kind = "raise" THEN <<>> ELSE ExtractedText(r.content)]

NoReply(raised) == [raised |-> raised, text |-> <<>>]

\* a plausible slip: the except branch keeps the questions of the responses
\* received before the failure
QuestionsOnError_partial(batch, found) == [j \in 1..Len(found) |-> ExtractedText(found[j])]

\* line 195: questions = [""] * len(statements)
QuestionsOnError(batch, found) == [j \in 1..Len(batch) |-> <<>>]

\* the QAPair built at lines 106-112
MakeQAPair(question, answer, statement, source) ==
    [prompt |-> question, completion |-> answer,
     metadata |-> [pages |-> statement.pages, source |-> source, chunk_id |-> statement.id]]

\* a plausible slip: each pair is put in front of the batch's earlier pairs
PairBatchResult_reversed(batch, qs, as, source) ==
    LET RECURSIVE Build(_)
        Build(j) == IF j = 0 THEN <<>>
                    ELSE <<MakeQAPair(qs[j], as[j], batch[j], source)>> \o Build(j - 1)
    IN  Build(Len(batch))

\* lines 98-113: the pairs one batch appends
PairBatchResult(batch, qs, as, source) ==
    LET keep == {j \in 1..Len(batch) : j <= Len(qs) /\ j <= Len(as)}
        RECURSIVE Build(_)
        Build(j) == IF j = 0 THEN <<>>
                    ELSE IF j \in keep
                         THEN Append(Build(j - 1), MakeQAPair(qs[j], as[j], batch[j], source))
                         ELSE Build(j - 1)
    IN  Build(Len(batch))

BatchSizes == {2, 5}

\* statements as the extractor builds them: distinct ids, a page list each
SomeStatements(n) == [i \in 1..n |-> [id |-> i, text |-> <<"s">>, pages |-> <<1 + (i % 2)>>]]

QAInit ==
    /\ qpc = "batch"
    /\ \E n \in 0..MaxStatements : g_statements = SomeStatements(n)
    /\ g_source = "doc.pdf"
    /\ g_job \in {NoneVal, "jobA"}
    /\ batch_size \in BatchSizes
    /\ bi = 0
    /\ responses = <<>>
    /\ questions = <<>>
    /\ answers = <<>>
    /\ qa_pairs = <<>>
    /\ api_log = <<>>
    /\ failed = {}

QAIdle ==
    /\ qpc = "idle"
    /\ g_statements = <<>>
    /\ g_source = "doc.pdf"
    /\ g_job = NoneVal
    /\ batch_size = 5
    /\ bi = 0
    /\ responses = <<>>
    /\ questions = <<>>
    /\ answers = <<>>
    /\ qa_pairs = <<>>
    /\ api_log = <<>>
    /\ failed = {}

\* lines 172-180 and 252-260: the call is recorded when the response has usage
TrackGeneration(r, operation) ==
    IF r.kind = "response" /\ r.usage
    THEN /\ calls' = Append(calls, OpenAIEntry(GenModel, GenUsage.prompt_tokens,
                               GenUsage.completion_tokens, operation, g_job,
                               DictVal("batch_size" :> IntVal(Len(Batch))), now))
         /\ returned' = Append(returned, calculate_openai_cost(GenModel,
                               GenUsage.prompt_tokens, GenUsage.completion_tokens))
         /\ now' = now + 1
    ELSE UNCHANGED <<calls, returned, now>>

\* lines 88-92: the next batch is taken and _generate_questions entered
StartBatch ==
    /\ qpc = "batch"
    /\ bi < Len(g_statements)
    /\ responses' = <<>>
    /\ questions' = <<>>
    /\ answers' = <<>>
    /\ qpc' = "questions"
    /\ UNCHANGED <<g_statements, g_source, g_job, batch_size, bi, qa_pairs, api_log, failed>>
    /\ UNCHANGED ledgerVars
    /\ UNCHANGED nonQAVars

\* lines 163-197: one question call; the last one of the batch is followed by
\* the extraction of the questions, a raising one by the except branch
QuestionCall ==
    /\ qpc = "questions"
    /\ Len(responses) < Len(Batch)
    /\ \E r \in (IF ppc = "off" THEN CompletionOutcomes(QuestionText)
                          ELSE RunCompletionOutcomes(QuestionText)) :
          LET st == Batch[Len(responses) + 1]
              got == IF r.kind = "raise" THEN responses ELSE Append(responses, r.content)
          IN  /\ api_log' = Append(api_log, [operation |-> "question_generation",
                                             item |-> st.id, batch |-> bi,
                                             reply |-> Reply(r)])
              /\ TrackGeneration(r, "question_generation")
              /\ IF r.kind = "raise"
                 THEN /\ questions' = QuestionsOnError(Batch, responses)
                      /\ failed' = failed \cup {[batch |-> bi, pass |-> "question"]}
                      /\ responses' = <<>>
                      /\ qpc' = "answers"
                 ELSE IF Len(got) = Len(Batch)
                 THEN /\ questions' = [j \in 1..Len(got) |-> ExtractedText(got[j])]
                      /\ responses' = <<>>
                      /\ qpc' = "answers"
                      /\ UNCHANGED failed
                 ELSE /\ responses' = got
                      /\ UNCHANGED <<questions, failed, qpc>>
    /\ UNCHANGED <<g_statements, g_source, g_job, batch_size, bi, answers, qa_pairs>>
    /\ UNCHANGED <<cost_file, restored, reported>>
    /\ UNCHANGED nonQAVars

\* lines 265-270 over the stored responses
AnswersFrom(got) == [j \in 1..Len(got) |-> ExtractedText(got[j])]

\* lines 239-242: no call is made for a statement whose question is empty
AnswerSkip ==
    /\ qpc = "answers"
    /\ Len(responses) < Len(Batch)
    /\ questions[Len(responses) + 1] = <<>>
    /\ LET got == Append(responses, NoneVal)
       IN  IF Len(got) = Len(Batch)
           THEN /\ answers' = AnswersFrom(got)
                /\ responses' = <<>>
                /\ qpc' = "pair"
           ELSE /\ responses' = got
                /\ UNCHANGED <<answers, qpc>>
    /\ UNCHANGED <<g_statements, g_source, g_job, batch_size, bi, questions, qa_pairs,
                   api_log, failed>>
    /\ UNCHANGED ledgerVars
    /\ UNCHANGED nonQAVars

\* lines 244-277: one answer call, as for the question calls
AnswerCall ==
    /\ qpc = "answers"
    /\ Len(responses) < Len(Batch)
    /\ questions[Len(responses) + 1] # <<>>
    /\ \E r \in (IF ppc = "off" THEN CompletionOutcomes(AnswerText)
                          ELSE RunCompletionOutcomes(AnswerText)) :
          LET st == Batch[Len(responses) + 1]
              got == IF r.kind = "raise" THEN responses ELSE Append(responses, r.content)
          IN  /\ api_log' = Append(api_log, [operation |-> "answer_generation",
                                             item |-> st.id, batch |-> bi,
                                             reply |-> Reply(r)])
              /\ TrackGeneration(r, "answer_generation")
              /\ IF r.kind = "raise"
                 THEN /\ answers' = [j \in 1..Len(Batch) |-> <<>>]
                      /\ failed' = failed \cup {[batch |-> bi, pass |-> "answer"]}
                      /\ responses' = <<>>
                      /\ qpc' = "pair"
                 ELSE IF Len(got) = Len(Batch)
                 THEN /\ answers' = AnswersFrom(got)
                      /\ responses' = <<>>
                      /\ qpc' = "pair"
                      /\ UNCHANGED failed
                 ELSE /\ responses' = got
                      /\ UNCHANGED <<answers, failed, qpc>>
    /\ UNCHANGED <<g_statements, g_source, g_job, batch_size, bi, questions, qa_pairs>>
    /\ UNCHANGED <<cost_file, restored, reported>>
    /\ UNCHANGED nonQAVars

\* lines 98-117: the batch's pairs are appended and the loop moves on
PairBatch ==
    /\ qpc = "pair"
    /\ qa_pairs' = qa_pairs \o PairBatchResult(Batch, questions, answers, g_source)
    /\ bi' = bi + batch_size
    /\ qpc' = "batch"
    /\ UNCHANGED <<g_statements, g_source, g_job, batch_size, responses, questions,
                   answers, api_log, failed>>
    /\ UNCHANGED ledgerVars
    /\ UNCHANGED nonQAVars

\* lines 88, 119-120: no batch is left, qa_pairs is returned
GenerateReturn ==
    /\ qpc = "batch"
    /\ bi >= Len(g_statements)
    /\ qpc' = "done"
    /\ UNCHANGED <<g_statements, g_source, g_job, batch_size, bi, responses, questions,
                   answers, qa_pairs, api_log, failed>>
    /\ UNCHANGED ledgerVars
    /\ UNCHANGED nonQAVars

(***************************************************************************)
(* Claims about the generator, checked under QASpec                        *)
(***************************************************************************)
\* the batch (its 0-based start) of the statement a pair was made from
BatchOfPair(pair) ==
    LET i == CHOOSE n \in 1..Len(g_statements) : g_statements[n].id = pair.metadata.chunk_id
    IN  ((i - 1) \div batch_size) * batch_size

\* C10: when a question-generation call of a batch raises, that batch
\* contributes no QAPair to the list generate builds (and returns).
C10_FailedBatchYieldsNoPairs ==
    \A n \in 1..Len(qa_pairs) :
        [batch |-> BatchOfPair(qa_pairs[n]), pass |-> "question"] \notin failed

\* the reply history of the call of one pass for one statement
ReplyOf(operation, id) ==
    LET n == CHOOSE k \in 1..Len(api_log) :
                 api_log[k].operation = operation /\ api_log[k].item = id
    IN  api_log[n].reply

PassFailed(b, pass) == [batch |-> b, pass |-> pass] \in failed

\* the batch (0-based start) of the statement at 1-based position n
BatchAt(n) == ((n - 1) \div batch_size) * batch_size

\* the question and the answer of statement n as its own batch's calls give
\* them: empty when the pass failed, else what the statement's call returned
\* (no answer call is made for an empty question)
OwnQuestion(n) ==
    IF PassFailed(BatchAt(n), "question") THEN <<>>
    ELSE ReplyOf("question_generation", g_statements[n].id).text

OwnAnswer(n) ==
    IF PassFailed(BatchAt(n), "answer") \/ OwnQuestion(n) = <<>> THEN <<>>
    ELSE ReplyOf("answer_generation", g_statements[n].id).text

AllEmpty(q, n) == Len(q) = n /\ \A j \in 1..n : q[j] = <<>>

\* C11: generate is never left by an exception of a completion call: a
\* raising question (answer) call ends its pass with an empty string for
\* every member of the batch, and every batch, also one after a failed batch,
\* is processed and contributes for each of its statements the pair its own
\* calls determine.
C11_FailureStaysInItsBatch ==
    /\ qpc \in {"idle", "batch", "questions", "answers", "pair", "done"}
    /\ (qpc \in {"answers", "pair"} /\ PassFailed(bi, "question")) =>
           AllEmpty(questions, Len(Batch))
    /\ (qpc = "pair" /\ PassFailed(bi, "answer")) => AllEmpty(answers, Len(Batch))
    /\ qpc # "idle" =>
          /\ Len(qa_pairs) = Min(bi, Len(g_statements))
          /\ \A n \in 1..Len(qa_pairs) :
                qa_pairs[n] = MakeQAPair(OwnQuestion(n), OwnAnswer(n), g_statements[n], g_source)
    /\ qpc = "done" => bi >= Len(g_statements)

\* generate has returned; a batch failed in its question pass, and a later
\* batch gave a pair with a question and an answer
C11_Witness ==
    /\ qpc = "done"
    /\ \E n \in 1..Len(qa_pairs), b \in 0..MaxStatements :
          /\ PassFailed(b, "question")
          /\ b < BatchAt(n)
          /\ qa_pairs[n].prompt # <<>>
          /\ qa_pairs[n].completion # <<>>

\* C20: empty questions and answers are filtered out at pairing time. No
\* QAPair returned by generate has an empty prompt or an empty completion,
\* whether the empty string came from a caught batch exception, from an empty
\* backend response or from the answer pass being skipped for an empty
\* question.
C20_NoEmptyPairs ==
    qpc = "done" =>
        \A n \in 1..Len(qa_pairs) :
            qa_pairs[n].prompt # <<>> /\ qa_pairs[n].completion # <<>>

\* what holds instead: generate returns one pair per statement, empty or not
PairPerStatement == qpc = "done" => Len(qa_pairs) = Len(g_statements)

\* the position (1-based) in g_statements of the statement with this id
PositionOf(id) == CHOOSE n \in 1..Len(g_statements) : g_statements[n].id = id

\* entry a of the call log comes before entry b in the fixed order: by batch,
\* then questions before answers, then by the statement's position
CallBefore(a, b) ==
    \/ a.batch < b.batch
    \/ /\ a.batch = b.batch
       /\ a.operation = "question_generation" /\ b.operation = "answer_generation"
    \/ /\ a.batch = b.batch
       /\ a.operation = b.operation
       /\ PositionOf(a.item) < PositionOf(b.item)

\* C26: generate issues its completion calls one at a time in a fixed order:
\* batches in statement order; within a batch the question calls in statement
\* order, then the answer calls in statement order, none for a statement
\* whose question is empty; every call of a batch has returned before a call
\* of a later batch is made; and the returned QAPairs are in the statements'
\* order.
C26_CallsAndPairsInOrder ==
    /\ \A m, n \in 1..Len(api_log) : m < n => CallBefore(api_log[m], api_log[n])
    /\ \A n \in 1..Len(api_log) :
          LET c == api_log[n] IN
          /\ c.batch % batch_size = 0
          /\ PositionOf(c.item) \in (c.batch + 1)..(c.batch + batch_size)
          /\ c.batch <= bi
          /\ c.operation = "answer_generation" =>
                /\ [batch |-> c.batch, pass |-> "question"] \notin failed
                /\ \E m \in 1..(n - 1) :
                      /\ api_log[m].operation = "question_generation"
                      /\ api_log[m].item = c.item
                      /\ api_log[m].reply.text # <<>>
    /\ \A m, n \in 1..Len(qa_pairs) :
          m < n => PositionOf(qa_pairs[m].metadata.chunk_id)
                     < PositionOf(qa_pairs[n].metadata.chunk_id)

\* generate has returned after two batches, with an answer call in the second
\* batch and a statement whose empty question got no answer call
C26_Witness ==
    /\ qpc = "done"
    /\ Len(qa_pairs) > batch_size
    /\ \E n \in 1..Len(api_log) :
          api_log[n].operation = "answer_generation" /\ api_log[n].batch > 0
    /\ \E n \in 1..Len(api_log) :
          /\ api_log[n].operation = "question_generation"
          /\ ~api_log[n].reply.raised
          /\ api_log[n].reply.text = <<>>
          /\ [batch |-> api_log[n].batch, pass |-> "question"] \notin failed
          /\ \E m \in 1..Len(api_log) :
                /\ api_log[m].operation = "answer_generation"
                /\ api_log[m].batch = api_log[n].batch

(***************************************************************************)
(* LlamaExtractor (extractor/llama_extractor.py)                           *)
(***************************************************************************)
\* the content of an extraction response, by what lines 132-152 make of it:
\* no first choice or empty content; text without a bracket pair; a bracket
\* pair json.loads rejects; a JSON array of the given items
NoContent == [json |-> "nocontent"]
NoBrackets == [json |-> "nobrackets"]
Malformed == [json |-> "malformed"]
JsonArray(items) == [json |-> "array", items |-> items]

\* the items of a JSON array: an object with the given keys, a number, a
\* string containing "page" or not
Obj(fields) == [type |-> "object", fields |-> fields]
Number == [type |-> "number"]
Str(with_page) == [type |-> "string", has_page |-> with_page]

StatementX == <<"X">>

ExtractContents ==
    {NoContent, NoBrackets, Malformed,
     JsonArray(<<>>),
     JsonArray(<<Obj(("statement" :> StatementX) @@ ("page" :> 9))>>),
     JsonArray(<<Obj("statement" :> StatementX), Obj(("statement" :> <<>>) @@ ("page" :> 9))>>),
     JsonArray(<<Obj(("statement" :> StatementX) @@ ("page" :> 0)), Number>>),
     JsonArray(<<Obj("statement" :> StatementX), Str(TRUE)>>),
     JsonArray(<<Str(TRUE)>>),
     JsonArray(<<Str(FALSE)>>)}

ExtractOutcomes ==
    {Raise, Response(NoBrackets, FALSE)} \cup {Response(c, TRUE) : c \in ExtractContents}

\* the outcomes drawn when extract runs inside a pipeline run
RunExtractOutcomes ==
    {Raise,
     Response(JsonArray(<<>>), TRUE),
     Response(JsonArray(<<Obj(("statement" :> StatementX) @@ ("page" :> 9))>>), TRUE),
     Response(JsonArray(<<Obj(("statement" :> StatementX) @@ ("page" :> 0))>>), TRUE)}

ExtractModel == "gpt-3.5-turbo"

\* pages[0] if pages else 1
FirstPage(pages) == IF pages # <<>> THEN pages[1] ELSE 1

\* lines 155 and 159
Placeholder(txt, pages) ==
    <<Obj(("statement" :> <<"Sample statement extracted from text of length", ToString(Len(txt))>>)
          @@ ("page" :> FirstPage(pages)))>>

\* lines 146-148 on one item; a number fails the membership test and a string
\* without "page" the assignment (TypeError)
PageAdded(item, pages) ==
    IF item.type = "object"
    THEN [ok |-> TRUE,
          item |-> IF "page" \in DOMAIN item.fields THEN item
                   ELSE Obj(item.fields @@ ("page" :> FirstPage(pages)))]
    ELSE IF item.type = "string" /\ item.has_page
    THEN [ok |-> TRUE, item |-> item]
    ELSE [ok |-> FALSE, item |-> item]

\* _extract_statements: the list it returns for one outcome of the call
ExtractStatements(outcome, txt, pages) ==
    IF outcome.kind = "raise" THEN Placeholder(txt, pages)
    ELSE IF outcome.content.json # "array" THEN Placeholder(txt, pages)
    ELSE LET items == outcome.content.items
         IN  IF \A n \in 1..Len(items) : PageAdded(items[n], pages).ok
             THEN [n \in 1..Len(items) |-> PageAdded(items[n], pages).item]
             ELSE Placeholder(txt, pages)

\* lines 181-202 on the results of one chunk: the statements appended, the
\* loop over the results being left at the first result that is no object
RECURSIVE ProcessResults(_, _, _, _)
ProcessResults(results, chunk, acc, id) ==
    IF results = <<>> THEN acc
    ELSE LET result == Head(results)
         IN  IF result.type # "object" THEN acc
             ELSE LET statement_text == IF "statement" \in DOMAIN result.fields
                                        THEN result.fields["statement"] ELSE <<>>
                      page == IF "page" \in DOMAIN result.fields
                              THEN result.fields["page"] ELSE 0
                  IN  IF statement_text = <<>>
                      THEN ProcessResults(Tail(results), chunk, acc, id)
                      ELSE ProcessResults(Tail(results), chunk,
                               Append(acc, [id |-> id, text |-> statement_text,
                                            pages |-> IF page # 0 THEN <<page>> ELSE chunk.pages]),
                               id + 1)

ExtractIdle ==
    /\ epc = "idle"
    /\ e_chunks = <<>>
    /\ statements = <<>>
    /\ ex_i = 0
    /\ e_log = <<>>
    /\ next_id = 1

\* chunks as extract may be handed them: a page list of one page (the parser
\* makes no other), page 0 included, or of no page
ChunkPages == {<<4>>, <<0>>, <<>>}

SomeChunks ==
    UNION {[1..n -> {[text |-> <<"a", ".">>, pages |-> pg, section |-> NoneMeta] :
                         pg \in ChunkPages}] : n \in 0..MaxChunks}

\* extract is called with any chunk list, ids in order
ExtractInit ==
    /\ epc = "loop"
    /\ \E cks \in SomeChunks :
          e_chunks = [k \in 1..Len(cks) |->
                         [id |-> k, text |-> cks[k].text, pages |-> cks[k].pages,
                          section |-> cks[k].section]]
    /\ statements = <<>>
    /\ ex_i = 0
    /\ e_log = <<>>
    /\ next_id = 1

\* lines 175-202: one iteration of the loop of extract, the completion call
\* and its recording included (the call is recorded without job id)
ExtractChunk ==
    /\ epc = "loop"
    /\ ex_i < Len(e_chunks)
    /\ \E outcome \in (IF ppc = "off" THEN ExtractOutcomes ELSE RunExtractOutcomes) :
          LET chunk == e_chunks[ex_i + 1]
              results == ExtractStatements(outcome, chunk.text, chunk.pages)
              added == ProcessResults(results, chunk, <<>>, next_id)
          IN  /\ api_log' = Append(api_log, [operation |-> "extraction",
                                             item |-> chunk.id, batch |-> 0,
                                             reply |-> NoReply(outcome.kind = "raise")])
              /\ IF outcome.kind = "response" /\ outcome.usage
                 THEN /\ calls' = Append(calls,
                            OpenAIEntry(ExtractModel, GenUsage.prompt_tokens,
                                        GenUsage.completion_tokens, "extraction", NoneVal,
                                        DictVal(("text_length" :> IntVal(Len(chunk.text)))
                                                @@ ("pages" :> ListVal(chunk.pages))),
                                        now))
                      /\ returned' = Append(returned, calculate_openai_cost(ExtractModel,
                                        GenUsage.prompt_tokens, GenUsage.completion_tokens))
                      /\ now' = now + 1
                 ELSE UNCHANGED <<calls, returned, now>>
              /\ statements' = statements \o added
              /\ e_log' = Append(e_log, [chunk |-> chunk, outcome |-> outcome,
                                         added |-> added])
              /\ next_id' = next_id + Len(added)
    /\ ex_i' = ex_i + 1
    /\ UNCHANGED <<epc, e_chunks>>
    /\ UNCHANGED <<cost_file, restored, reported>>
    /\ UNCHANGED <<qpc, g_statements, g_source, g_job, batch_size, bi, responses,
                   questions, answers, qa_pairs, failed>>
    /\ UNCHANGED <<chunkVars, pipeVars, auxVars>>

\* lines 204-205
ExtractReturn ==
    /\ epc = "loop"
    /\ ex_i >= Len(e_chunks)
    /\ epc' = "done"
    /\ UNCHANGED <<e_chunks, statements, ex_i, e_log, next_id>>
    /\ UNCHANGED <<chunkVars, ledgerVars, qaVars, pipeVars, auxVars>>

(***************************************************************************)
(* Claims about the extractor, checked under ExtractSpec                   *)
(***************************************************************************)
\* the call gave nothing an array of statement objects can be read from: it
\* raised, had no content, no bracket pair or a rejected one, or the array
\* holds items of which none is an object
NoStatementArray(outcome) ==
    \/ outcome.kind = "raise"
    \/ /\ outcome.kind = "response"
       /\ \/ outcome.content.json # "array"
          \/ /\ outcome.content.items # <<>>
             /\ \A n \in 1..Len(outcome.content.items) :
                   outcome.content.items[n].type # "object"

IsPlaceholder(st, chunk) ==
    /\ st.text = Placeholder(chunk.text, chunk.pages)[1].fields["statement"]
    /\ st.pages = <<FirstPage(chunk.pages)>>

RECURSIVE AddedSoFar(_)
AddedSoFar(n) == IF n = 0 THEN <<>> ELSE AddedSoFar(n - 1) \o e_log[n].added

\* C12: a chunk whose completion call raises, returns no content, or returns
\* text holding no JSON array of statement objects, adds exactly one
\* placeholder statement with the chunk's first page; extract is not left by
\* an exception and the statements of the other chunks stay as they are.
C12_PlaceholderOnFailure ==
    /\ epc \in {"idle", "loop", "done"}
    /\ statements = AddedSoFar(Len(e_log))
    /\ \A n \in 1..Len(e_log) :
          NoStatementArray(e_log[n].outcome) =>
              /\ Len(e_log[n].added) = 1
              /\ IsPlaceholder(e_log[n].added[1], e_log[n].chunk)

\* C29: for every chunk and every outcome of the completion call, a
\* well-formed JSON array that is empty or whose objects have no non-empty
\* "statement" included, extract emits at least one statement for that
\* chunk, real or placeholder, so a non-empty chunk list never yields an
\* empty statement list.
C29_EveryChunkYieldsAStatement ==
    /\ \A n \in 1..Len(e_log) : Len(e_log[n].added) >= 1
    /\ (epc = "done" /\ e_chunks # <<>>) => statements # <<>>

\* the part of C29 that holds: a call that raises, or whose response has no
\* content, no bracket pair or a rejected one, yields a statement
UnreadableResponseYieldsAStatement ==
    \A n \in 1..Len(e_log) :
        (e_log[n].outcome.kind = "raise" \/ e_log[n].outcome.content.json # "array") =>
            Len(e_log[n].added) = 1

(***************************************************************************)
(* LlamaParser.parse (parser/llama_parser.py)                              *)
(***************************************************************************)
\* _chunk_text as a function: the list it returns, or hung when the loop
\* comes back to a start position (it then never returns)
RECURSIVE ChunkLoop(_, _, _, _, _, _)
ChunkLoop(s, size, overlap, st, acc, seen) ==
    IF st >= Len(s) THEN [hung |-> FALSE, chunks |-> acc]
    ELSE IF st \in seen THEN [hung |-> TRUE, chunks |-> acc]
    ELSE LET end == CutEnd(s, st, size)
         IN  ChunkLoop(s, size, overlap, NextStart(end, overlap),
                       AppendIfNonEmpty(acc, Strip(Slice(s, st, end))), seen \cup {st})

ChunkText(s, size, overlap) ==
    IF Len(s) <= size THEN [hung |-> FALSE, chunks |-> <<s>>]
    ELSE ChunkLoop(s, size, overlap, 0, <<>>, {})

Digits == {"0", "1", "2", "3", "4", "5", "6", "7", "8", "9"}
DigitValue(c) ==
    CASE c = "0" -> 0 [] c = "1" -> 1 [] c = "2" -> 2 [] c = "3" -> 3 [] c = "4" -> 4
      [] c = "5" -> 5 [] c = "6" -> 6 [] c = "7" -> 7 [] c = "8" -> 8 [] c = "9" -> 9

RECURSIVE DecimalValue(_)
DecimalValue(chars) ==
    IF chars = <<>> THEN 0
    ELSE DecimalValue(SubSeq(chars, 1, Len(chars) - 1)) * 10 + DigitValue(chars[Len(chars)])

\* int(value): the integer, or not ok where int raises ValueError or TypeError
ParseInt(value) ==
    IF value.t = "int" THEN [ok |-> TRUE, v |-> value.v]
    ELSE IF value.t = "str" /\ Strip(value.v) # <<>>
            /\ \A n \in 1..Len(Strip(value.v)) : Strip(value.v)[n] \in Digits
    THEN [ok |-> TRUE, v |-> DecimalValue(Strip(value.v))]
    ELSE [ok |-> FALSE, v |-> 0]

\* lines 152-164: the page list of the page record at 0-based position i
PageList(doc, i) ==
    IF "page_label" \in DOMAIN doc.metadata
    THEN IF ParseInt(doc.metadata["page_label"]).ok
         THEN <<ParseInt(doc.metadata["page_label"]).v>>
         ELSE <<i + 1>>
    ELSE IF "page" \in DOMAIN doc.metadata
    THEN IF ParseInt(doc.metadata["page"]).ok
         THEN <<ParseInt(doc.metadata["page"]).v>>
         ELSE <<i + 1>>
    ELSE <<i + 1>>

\* lines 167-169
SectionOf(doc) ==
    IF "section" \in DOMAIN doc.metadata THEN doc.metadata["section"] ELSE NoneMeta

\* lines 149-180: the chunks of the page records docs[1..n], ids in order
RECURSIVE PageChunks(_, _, _, _)
PageChunks(docs, n, size, overlap) ==
    IF n = 0 THEN [hung |-> FALSE, chunks |-> <<>>]
    ELSE LET before == PageChunks(docs, n - 1, size, overlap)
             cut == ChunkText(docs[n].text, size, overlap)
         IN  IF before.hung \/ cut.hung THEN [hung |-> TRUE, chunks |-> <<>>]
             ELSE [hung |-> FALSE,
                   chunks |-> before.chunks \o
                       [k \in 1..Len(cut.chunks) |->
                           [id |-> Len(before.chunks) + k, text |-> cut.chunks[k],
                            pages |-> PageList(docs[n], n - 1), section |-> SectionOf(docs[n])]]]

SupportedTypes == {"pdf", "docx", "doc", "txt"}

\* what the parsing backend returns: page records with text and metadata
EmptyMeta == [k \in {} |-> NoneMeta]
BackendResults ==
    {<<>>,
     <<[text |-> <<"a", ".">>, metadata |-> ("page_label" :> StrVal(<<"7">>))]>>,
     <<[text |-> <<"a", " ", "a", "a">>,
        metadata |-> ("page" :> IntVal(3)) @@ ("section" :> StrVal(<<"S">>))],
       [text |-> <<" ">>, metadata |-> EmptyMeta]>>,
     <<[text |-> <<".", ".", "a", ".">>,
        metadata |-> ("page_label" :> StrVal(<<"i", "v">>)) @@ ("page" :> IntVal(5))]>>}

\* what the backend call gave, as the history keeps it
ParseReply(outcome) == [raised |-> outcome.kind = "raise", text |-> <<>>, docs |-> outcome.docs]

\* the backend call returns page records or raises
ParseOutcomes ==
    {[kind |-> "pages", docs |-> d] : d \in BackendResults} \cup {[kind |-> "raise", docs |-> <<>>]}

ParserConfigs ==
    {[chunk_size |-> 1500, chunk_overlap |-> 200],
     [chunk_size |-> 2, chunk_overlap |-> 1]}

Documents ==
    {[path |-> "doc.pdf", exists |-> TRUE, file_type |-> "pdf", stem |-> "doc"],
     [path |-> "doc.pdf", exists |-> FALSE, file_type |-> "pdf", stem |-> "doc"],
     [path |-> "doc.exe", exists |-> TRUE, file_type |-> "exe", stem |-> "doc"]}

(***************************************************************************)
(* ProcessingSummary (utils/summary_generator.py)                          *)
(***************************************************************************)
\* ProcessingSummary.__init__
NewSummary(job) ==
    [job_id |-> job, estimated_pages |-> 0, chunks_created |-> 0,
     statements_extracted |-> 0, qa_pairs_generated |-> 0,
     total_cost_usd |-> 0, llamaparse_cost_usd |-> 0, openai_cost_usd |-> 0,
     openai_tokens_used |-> 0, output_files |-> {}, finalized |-> <<>>]

NoSummary == NewSummary(NoneVal)

\* record_parsing_results
RecordParsingResults(sm, cks) ==
    [sm EXCEPT !.chunks_created = Len(cks),
               !.estimated_pages =
                   IF cks # <<>>
                   THEN Cardinality(UNION {{cks[k].pages[n] : n \in 1..Len(cks[k].pages)} :
                                            k \in 1..Len(cks)})
                   ELSE @]

RECURSIVE JobBreakdown(_, _, _)
JobBreakdown(sm, cs, i) ==
    IF i > Len(cs) THEN sm
    ELSE LET call == cs[i]
             next == IF call.job_id = sm.job_id
                     THEN IF call.service = "llamaparse"
                          THEN [sm EXCEPT !.llamaparse_cost_usd = @ + call.cost_usd]
                          ELSE IF call.service = "openai"
                          THEN [sm EXCEPT !.openai_cost_usd = @ + call.cost_usd,
                                          !.openai_tokens_used = @ + call.total_tokens]
                          ELSE sm
                     ELSE sm
         IN  JobBreakdown(next, cs, i + 1)

\* finalize (lines 116-137); finalized is history: the length of the ledger
\* at each call of finalize
Finalize(sm, cs) ==
    LET by_job == get_summary(cs).by_job
        job_cost == IF sm.job_id \in DOMAIN by_job THEN by_job[sm.job_id].cost ELSE 0
    IN  JobBreakdown([sm EXCEPT !.total_cost_usd = job_cost, !.finalized = Append(@, Len(cs))], cs, 1)

\* a client holding a ProcessingSummary of one job next to the ledger
SummaryJobs == {"jobA", "jobB"}

SummaryInit ==
    /\ ppc = "off"
    /\ skip_parse = FALSE
    /\ skip_extract = FALSE
    /\ skip_qa = FALSE
    /\ job_id \in SummaryJobs
    /\ document = [path |-> "doc.pdf", exists |-> TRUE, file_type |-> "pdf", stem |-> "doc"]
    /\ parser_config = [chunk_size |-> 1500, chunk_overlap |-> 200]
    /\ chunks = <<>>
    /\ artifacts = [content_json |-> [written |-> FALSE, content |-> <<>>],
                    qa_jsonl |-> [written |-> FALSE, content |-> <<>>],
                    summary_json |-> [written |-> FALSE, content |-> NoSummary]]
    /\ summary = NewSummary(job_id)
    /\ events = <<>>

\* summary.finalize() called by the client
FinalizeCall ==
    /\ Len(summary.finalized) < MaxFinalize
    /\ summary' = Finalize(summary, calls)
    /\ UNCHANGED <<ppc, skip_parse, skip_extract, skip_qa, job_id, document, parser_config,
                   chunks, artifacts, events>>
    /\ UNCHANGED <<chunkVars, ledgerVars, qaVars, extractVars, auxVars>>

\* the cost figures and the token count of a summary
CostFigures(sm) ==
    <<sm.total_cost_usd, sm.llamaparse_cost_usd, sm.openai_cost_usd, sm.openai_tokens_used>>

\* C15: finalize is idempotent when the ledger has not changed. A call of
\* finalize made when the ledger is as long as it was at the previous call
\* leaves the total, parsing-service and completion-service cost figures and
\* the token count as the previous call left them.
C15_FinalizeIdempotent ==
    [][(/\ Len(summary'.finalized) = Len(summary.finalized) + 1
        /\ summary.finalized # <<>>
        /\ summary.finalized[Len(summary.finalized)] = Len(calls))
       => CostFigures(summary') = CostFigures(summary)]_vars

\* the part of C15 that holds: the total is assigned, not accumulated
FinalizeTotalIdempotent ==
    [][(/\ Len(summary'.finalized) = Len(summary.finalized) + 1
        /\ summary.finalized # <<>>
        /\ summary.finalized[Len(summary.finalized)] = Len(calls))
       => summary'.total_cost_usd = summary.total_cost_usd]_vars

(***************************************************************************)
(* Pipeline.run (pipeline.py)                                              *)
(***************************************************************************)
\* the output files: whether the file was written, and what it holds
NoFile(empty) == [written |-> FALSE, content |-> empty]
File(content) == [written |-> TRUE, content |-> content]
NoArtifacts ==
    [content_json |-> NoFile(<<>>), qa_jsonl |-> NoFile(<<>>), summary_json |-> NoFile(NoSummary)]

\* Chunk.to_dict over the chunks, as written by export_chunks
ChunkDicts(cks) == [k \in 1..Len(cks) |-> cks[k]]

\* QAPair.to_openai_format over the pairs, as written by QAExporter.export
OpenAILines(pairs) ==
    [k \in 1..Len(pairs) |->
        <<[role |-> "user", content |-> pairs[k].prompt],
          [role |-> "assistant", content |-> pairs[k].completion]>>]

\* the ledger file found when the process starts
RunFiles == {MissingFile, JsonFile(<<LlamaParseEntry(2, "jobA", NoneMeta, 1)>>)}

PipeInit ==
    /\ ppc = "idle"
    /\ skip_parse = FALSE
    /\ skip_extract = FALSE
    /\ skip_qa = FALSE
    /\ job_id = NoneVal
    /\ document \in Documents
    /\ parser_config \in ParserConfigs
    /\ chunks = <<>>
    /\ artifacts = NoArtifacts
    /\ summary = NoSummary
    /\ events = <<>>

PipeIdle ==
    /\ ppc = "off"
    /\ skip_parse = FALSE
    /\ skip_extract = FALSE
    /\ skip_qa = FALSE
    /\ job_id = NoneVal
    /\ document = [path |-> "doc.pdf", exists |-> TRUE, file_type |-> "pdf", stem |-> "doc"]
    /\ parser_config = [chunk_size |-> 1500, chunk_overlap |-> 200]
    /\ chunks = <<>>
    /\ artifacts = NoArtifacts
    /\ summary = NoSummary
    /\ events = <<>>

\* lines 137-153: run is entered with its arguments; the job id defaults to
\* the stem of the input path
RunStart ==
    /\ ppc = "idle"
    /\ skip_parse' \in BOOLEAN
    /\ skip_extract' \in BOOLEAN
    /\ skip_qa' \in BOOLEAN
    /\ \E arg \in {NoneVal, "jobA"} :
          /\ job_id' = IF arg = NoneVal THEN document.stem ELSE arg
          /\ summary' = NewSummary(job_id')
    /\ chunks' = <<>>
    /\ ppc' = "parse"
    /\ UNCHANGED <<document, parser_config, artifacts, events>>
    /\ UNCHANGED <<chunkVars, ledgerVars, qaVars, extractVars, auxVars>>

\* line 154 with skip_parse set
SkipParse ==
    /\ ppc = "parse"
    /\ skip_parse
    /\ ppc' = "extract_gate"
    /\ UNCHANGED <<skip_parse, skip_extract, skip_qa, job_id, document, parser_config,
                   chunks, artifacts, summary, events>>
    /\ UNCHANGED <<chunkVars, ledgerVars, qaVars, extractVars, auxVars>>

\* a plausible slip: the parse is priced by the chunks it produced
EstimatedPages_chunks(markdown_documents, cks) == Len(cks)

\* llama_parser.py line 185: estimated_pages = len(markdown_documents)
EstimatedPages(markdown_documents, cks) == Len(markdown_documents)

\* a plausible slip: the handler logs the error and parse returns
OnBackendError_swallowed == "export_content"

\* lines 198-200: the error of the backend call is logged and raised again,
\* and run, which has no handler, is left by it
OnBackendError == "raised"

\* lines 154-160 and LlamaParser.parse: a missing file, an unsupported type
\* and a backend error leave run by the exception; chunking that never
\* returns hangs the run; otherwise the parse is recorded in the ledger
\* with the number of page records and the chunks are returned
ParseDocument ==
    /\ ppc = "parse"
    /\ ~skip_parse
    /\ IF ~document.exists \/ document.file_type \notin SupportedTypes
       THEN /\ ppc' = "raised"
            /\ UNCHANGED <<chunks, summary, events, calls, returned, now, api_log>>
       ELSE \E outcome \in ParseOutcomes :
            LET result == outcome.docs IN
            /\ api_log' = Append(api_log, [operation |-> "parse", item |-> Len(result),
                                            batch |-> 0,
                                            reply |-> ParseReply(outcome)])
            /\ IF outcome.kind = "raise"
               THEN /\ ppc' = OnBackendError
                    /\ UNCHANGED <<chunks, summary, events, calls, returned, now>>
               ELSE LET cut == PageChunks(result, Len(result), parser_config.chunk_size,
                                          parser_config.chunk_overlap)
                    IN  IF cut.hung
                        THEN /\ ppc' = "hung"
                             /\ UNCHANGED <<chunks, summary, events, calls, returned, now>>
                        ELSE /\ chunks' = cut.chunks
                             /\ calls' = Append(calls,
                                    LlamaParseEntry(EstimatedPages(result, cut.chunks), job_id,
                                        DictVal(("document_path" :> StrVal(document.path))
                                            @@ ("chunks_created" :> IntVal(Len(cut.chunks)))
                                            @@ ("chunk_size" :> IntVal(parser_config.chunk_size))
                                            @@ ("chunk_overlap" :> IntVal(parser_config.chunk_overlap))),
                                        now))
                             /\ returned' = Append(returned,
                                        calculate_llamaparse_cost(
                                            EstimatedPages(result, cut.chunks)))
                             /\ now' = now + 1
                             /\ summary' = RecordParsingResults(summary, cut.chunks)
                             /\ events' = Append(events, "parse")
                             /\ ppc' = "export_content"
    /\ UNCHANGED <<skip_parse, skip_extract, skip_qa, job_id, document, parser_config,
                   artifacts>>
    /\ UNCHANGED <<cost_file, restored, reported>>
    /\ UNCHANGED <<qpc, g_statements, g_source, g_job, batch_size, bi, responses,
                   questions, answers, qa_pairs, failed>>
    /\ UNCHANGED <<chunkVars, extractVars, auxVars>>

\* lines 162-169
ExportContent ==
    /\ ppc = "export_content"
    /\ artifacts' = [artifacts EXCEPT !.content_json = File(ChunkDicts(chunks))]
    /\ summary' = [summary EXCEPT !.output_files = @ \cup {"content_json"}]
    /\ events' = Append(events, "export_content")
    /\ ppc' = "extract_gate"
    /\ UNCHANGED <<skip_parse, skip_extract, skip_qa, job_id, document, parser_config, chunks>>
    /\ UNCHANGED <<chunkVars, ledgerVars, qaVars, extractVars, auxVars>>

\* a plausible slip: the test of line 173 is inverted
AfterParseStage_inverted(sp, se) ==
    IF ~se THEN "qa_gate" ELSE IF sp THEN "returned" ELSE "extract"

\* a plausible slip: the guard of lines 174-176 is missing
AfterParseStage_unguarded(sp, se) == IF se THEN "qa_gate" ELSE "extract"

\* lines 173-178: where run goes from the extraction stage's entry
AfterParseStage(sp, se) ==
    IF se THEN "qa_gate" ELSE IF sp THEN "returned" ELSE "extract"

\* lines 172-180: the stage is skipped, or run returns because the chunks are
\* missing, or extract is called with the chunks
ExtractGate ==
    /\ ppc = "extract_gate"
    /\ ppc' = AfterParseStage(skip_parse, skip_extract)
    /\ IF ppc' = "extract"
       THEN /\ epc' = "loop"
            /\ e_chunks' = chunks
            /\ statements' = <<>>
            /\ ex_i' = 0
            /\ e_log' = <<>>
            /\ UNCHANGED next_id
       ELSE UNCHANGED extractVars
    /\ UNCHANGED <<skip_parse, skip_extract, skip_qa, job_id, document, parser_config,
                   chunks, artifacts, summary, events>>
    /\ UNCHANGED <<chunkVars, ledgerVars, qaVars, auxVars>>

\* lines 180-183: extract has returned
EndExtract ==
    /\ ppc = "extract"
    /\ epc = "done"
    /\ summary' = [summary EXCEPT !.statements_extracted = Len(statements)]
    /\ events' = Append(events, "extract")
    /\ ppc' = "qa_gate"
    /\ UNCHANGED <<skip_parse, skip_extract, skip_qa, job_id, document, parser_config,
                   chunks, artifacts>>
    /\ UNCHANGED <<chunkVars, ledgerVars, qaVars, extractVars, auxVars>>

\* a plausible slip: the test of lines 187-189 comes before the skip test
AfterExtractStage_halts(se, sq) ==
    IF se THEN "returned" ELSE IF sq THEN "finalize" ELSE "generate"

\* a plausible slip: the guard of lines 187-189 is missing
AfterExtractStage_unguarded(se, sq) == IF sq THEN "finalize" ELSE "generate"

\* lines 186-191: where run goes from the generation stage's entry
AfterExtractStage(se, sq) ==
    IF sq THEN "finalize" ELSE IF se THEN "returned" ELSE "generate"

\* lines 186-193: the stage is skipped, or run returns because the statements
\* are missing, or generate is called (without job id)
QAGate ==
    /\ ppc = "qa_gate"
    /\ ppc' = AfterExtractStage(skip_extract, skip_qa)
    /\ IF ppc' = "generate"
       THEN /\ qpc' = "batch"
            /\ g_statements' = statements
            /\ g_source' = document.path
            /\ g_job' = NoneVal
            /\ bi' = 0
            /\ qa_pairs' = <<>>
            /\ UNCHANGED <<batch_size, responses, questions, answers, api_log, failed>>
       ELSE UNCHANGED qaVars
    /\ UNCHANGED <<skip_parse, skip_extract, skip_qa, job_id, document, parser_config,
                   chunks, artifacts, summary, events>>
    /\ UNCHANGED <<chunkVars, ledgerVars, extractVars, auxVars>>

\* lines 193-196: generate has returned
EndGenerate ==
    /\ ppc = "generate"
    /\ qpc = "done"
    /\ summary' = [summary EXCEPT !.qa_pairs_generated = Len(qa_pairs)]
    /\ events' = Append(events, "generate")
    /\ ppc' = "export_qa"
    /\ UNCHANGED <<skip_parse, skip_extract, skip_qa, job_id, document, parser_config,
                   chunks, artifacts>>
    /\ UNCHANGED <<chunkVars, ledgerVars, qaVars, extractVars, auxVars>>

\* lines 198-205
ExportQA ==
    /\ ppc = "export_qa"
    /\ artifacts' = [artifacts EXCEPT !.qa_jsonl = File(OpenAILines(qa_pairs))]
    /\ summary' = [summary EXCEPT !.output_files = @ \cup {"qa_jsonl"}]
    /\ events' = Append(events, "export_qa")
    /\ ppc' = "finalize"
    /\ UNCHANGED <<skip_parse, skip_extract, skip_qa, job_id, document, parser_config, chunks>>
    /\ UNCHANGED <<chunkVars, ledgerVars, qaVars, extractVars, auxVars>>

\* line 211
FinalizeSummary ==
    /\ ppc = "finalize"
    /\ summary' = Finalize(summary, calls)
    /\ events' = Append(events, "finalize")
    /\ ppc' = "save_summary"
    /\ UNCHANGED <<skip_parse, skip_extract, skip_qa, job_id, document, parser_config,
                   chunks, artifacts>>
    /\ UNCHANGED <<chunkVars, ledgerVars, qaVars, extractVars, auxVars>>

\* lines 212-214: the summary is written (a failing write is only logged)
SaveSummary ==
    /\ ppc = "save_summary"
    /\ \/ artifacts' = [artifacts EXCEPT !.summary_json = File(summary)]
       \/ UNCHANGED artifacts
    /\ summary' = [summary EXCEPT !.output_files = @ \cup {"summary_json"}]
    /\ events' = Append(events, "save_summary")
    /\ ppc' = "save_costs"
    /\ UNCHANGED <<skip_parse, skip_extract, skip_qa, job_id, document, parser_config, chunks>>
    /\ UNCHANGED <<chunkVars, ledgerVars, qaVars, extractVars, auxVars>>

\* lines 217-219: the ledger is saved as by save_costs, and run returns
SaveCostsAndReturn ==
    /\ ppc = "save_costs"
    /\ cost_file' \in {JsonFile(calls), cost_file, CorruptFile}
    /\ events' = Append(events, "save_costs")
    /\ ppc' = "returned"
    /\ UNCHANGED <<calls, now, restored, returned, reported>>
    /\ UNCHANGED <<skip_parse, skip_extract, skip_qa, job_id, document, parser_config,
                   chunks, artifacts, summary>>
    /\ UNCHANGED <<chunkVars, qaVars, extractVars, auxVars>>

(***************************************************************************)
(* Claims about the orchestrator, checked under PipeSpec                   *)
(***************************************************************************)
InSeq(x, q) == \E n \in 1..Len(q) : q[n] = x

CompletionCalls == {n \in 1..Len(api_log) : api_log[n].operation # "parse"}

\* C1: a run with skip_parse = true and skip_extract = false halts before the
\* extractor is invoked: it is never inside or past extract, no statement
\* exists, no completion call was made, no QA artifact is written, and the
\* run is never left by an exception (from the extraction stage's entry it
\* returns).
C1_HaltsBeforeExtraction ==
    (ppc \notin {"idle", "off"} /\ skip_parse /\ ~skip_extract) =>
        /\ ppc \in {"parse", "extract_gate", "returned"}
        /\ epc = "idle"
        /\ statements = <<>>
        /\ CompletionCalls = {}
        /\ qpc = "idle"
        /\ ~artifacts.qa_jsonl.written

\* such a run has returned
C1_Witness ==
    /\ ppc = "returned"
    /\ skip_parse /\ ~skip_extract
    /\ ~InSeq("save_costs", events)

\* C2: whatever the skip flags, the extractor is invoked only if parsing ran
\* in this run, the QA generator and the QA export only if extraction ran;
\* with skip_extract = true and skip_qa = false there is no QAPair and no QA
\* artifact.
C2_StagesNeedTheirInput ==
    /\ epc # "idle" => (~skip_parse /\ InSeq("parse", events))
    /\ qpc # "idle" => (~skip_extract /\ InSeq("extract", events))
    /\ artifacts.qa_jsonl.written => (~skip_extract /\ InSeq("extract", events))
    /\ (ppc \notin {"idle", "off"} /\ skip_extract /\ ~skip_qa) =>
          /\ qa_pairs = <<>>
          /\ qpc = "idle"
          /\ ~artifacts.qa_jsonl.written
          /\ ~InSeq("generate", events)

\* a run that parsed, had extraction skipped and generation asked for, and
\* has returned
C2_Witness ==
    /\ ppc = "returned"
    /\ ~skip_parse /\ skip_extract /\ ~skip_qa
    /\ InSeq("export_content", events)

\* the step of run that calls parser.parse, and its successful return
ParseCall == ppc = "parse" /\ ~skip_parse /\ ppc' # "parse"
ParseReturned == ppc' = "export_content"

\* C17: every successful parse call appends exactly one ledger entry, of the
\* parsing service, whose unit count and price are those of the number of
\* page records the backend returned, whatever the number of chunks; a parse
\* call that fails (missing file, unsupported type, backend error) appends
\* no entry.
C17_ParseRecordedByPages ==
    [][ParseCall =>
          IF ParseReturned
          THEN LET pages == api_log'[Len(api_log')].item
                   entry == calls'[Len(calls')]
               IN  /\ Len(calls') = Len(calls) + 1
                   /\ SubSeq(calls', 1, Len(calls)) = calls
                   /\ api_log'[Len(api_log')].operation = "parse"
                   /\ entry.service = "llamaparse"
                   /\ entry.input_tokens = pages
                   /\ entry.total_tokens = pages
                   /\ entry.cost_usd = pages * LLAMAPARSE_PER_PAGE
          ELSE calls' = calls]_vars

\* a parse that returned two page records and more than two chunks, recorded
\* as two pages
C17_Witness ==
    /\ ppc = "export_content"
    /\ Len(chunks) > 2
    /\ calls # <<>>
    /\ calls[Len(calls)].service = "llamaparse"
    /\ calls[Len(calls)].input_tokens = 2
    /\ calls[Len(calls)].cost_usd = 2 * LLAMAPARSE_PER_PAGE
    /\ api_log[Len(api_log)].operation = "parse"
    /\ Len(api_log[Len(api_log)].reply.docs) = 2

\* a run with no stage skipped that has returned
FullRunReturned == ppc = "returned" /\ ~skip_parse /\ ~skip_extract /\ ~skip_qa

\* the page records the backend returned to the run's parse call
PagesReturned ==
    LET n == CHOOSE k \in 1..Len(api_log) : api_log[k].operation = "parse"
    IN  api_log[n].reply.docs

\* the response is a JSON array of one object with a statement text and a page
OneStatementObject(outcome) ==
    /\ outcome.kind = "response"
    /\ outcome.content.json = "array"
    /\ Len(outcome.content.items) = 1
    /\ outcome.content.items[1].type = "object"
    /\ DOMAIN outcome.content.items[1].fields = {"statement", "page"}
    /\ outcome.content.items[1].fields["statement"] # <<>>

\* the case of C19: one page record, not longer than the chunk size, and
\* every extraction response an array of one statement object
OnePageOneStatement ==
    /\ FullRunReturned
    /\ Len(PagesReturned) = 1
    /\ Len(PagesReturned[1].text) <= parser_config.chunk_size
    /\ e_log # <<>>
    /\ \A n \in 1..Len(e_log) : OneStatementObject(e_log[n].outcome)

\* C19: for a backend result of exactly one page whose text is not longer
\* than the chunk size and an extraction response that is a JSON array of one
\* statement object with page p, a full run produces exactly one chunk, one
\* statement and one QAPair, the pair's metadata.pages being [p] and its
\* metadata.chunk_id the statement's id.
C19_OnePageOnePair ==
    OnePageOneStatement =>
        /\ Len(chunks) = 1
        /\ Len(statements) = 1
        /\ Len(qa_pairs) = 1
        /\ qa_pairs[1].metadata.pages = <<e_log[1].outcome.content.items[1].fields["page"]>>
        /\ qa_pairs[1].metadata.chunk_id = statements[1].id

\* the part of C19 that holds: one chunk, one statement, one pair carrying the
\* statement's id, with pages [p] when p is not 0
OnePageOnePairNonZero ==
    OnePageOneStatement =>
        /\ Len(chunks) = 1
        /\ Len(statements) = 1
        /\ Len(qa_pairs) = 1
        /\ qa_pairs[1].metadata.chunk_id = statements[1].id
        /\ LET page == e_log[1].outcome.content.items[1].fields["page"]
           IN  qa_pairs[1].metadata.pages = (IF page # 0 THEN <<page>> ELSE chunks[1].pages)

\* the page records the parsing backend returned to this run
ParsedDocs == api_log[1].reply.docs

\* the number of chunks made from the page records before record n
ChunksBefore(n) ==
    Len(PageChunks(ParsedDocs, n - 1, parser_config.chunk_size,
                   parser_config.chunk_overlap).chunks)

\* the fallback order as stated: the label, else the page, else the position
StatedPageList(doc, i) ==
    IF "page_label" \in DOMAIN doc.metadata /\ ParseInt(doc.metadata["page_label"]).ok
    THEN <<ParseInt(doc.metadata["page_label"]).v>>
    ELSE IF "page" \in DOMAIN doc.metadata /\ ParseInt(doc.metadata["page"]).ok
    THEN <<ParseInt(doc.metadata["page"]).v>>
    ELSE <<i + 1>>

\* C28: for the page record at 0-based position i, the page list of all
\* chunks made from it is [int(page_label)] if page_label is present and
\* integer-parseable, otherwise [int(page)] if page is present and
\* integer-parseable, otherwise [i+1]; all chunks split from the same page
\* record get the same page list and section.
C28_PageListFallback ==
    InSeq("parse", events) =>
        \A n \in 1..Len(ParsedDocs) :
            \A k \in (ChunksBefore(n) + 1)..ChunksBefore(n + 1) :
                /\ chunks[k].pages = StatedPageList(ParsedDocs[n], n - 1)
                /\ chunks[k].section = SectionOf(ParsedDocs[n])

\* the part of C28 that holds: the chunks of one page record share their page
\* list and section, and the page list is the label's integer when the label
\* is parseable, the page's when there is no label, the position otherwise
PageListOfRecord ==
    InSeq("parse", events) =>
        \A n \in 1..Len(ParsedDocs) :
            \A k \in (ChunksBefore(n) + 1)..ChunksBefore(n + 1) :
                /\ chunks[k].pages = chunks[ChunksBefore(n) + 1].pages
                /\ chunks[k].section = SectionOf(ParsedDocs[n])
                /\ "page_label" \notin DOMAIN ParsedDocs[n].metadata =>
                      chunks[k].pages = StatedPageList(ParsedDocs[n], n - 1)
                /\ ("page_label" \in DOMAIN ParsedDocs[n].metadata
                       /\ ~ParseInt(ParsedDocs[n].metadata["page_label"]).ok) =>
                      chunks[k].pages = <<n>>

\* the parsing backend was called in this run and raised
BackendRaised == api_log # <<>> /\ api_log[1].operation = "parse" /\ api_log[1].reply.raised

\* C30: if the parsing backend raises during parse, the error propagates out
\* of parse and out of run(): no chunk is returned, no content artifact (nor
\* any other) is written, no ledger entry is appended for that parse, and
\* neither the extractor nor the QA generator is invoked in that run.
C30_BackendErrorPropagates ==
    BackendRaised =>
        /\ ppc = "raised"
        /\ chunks = <<>>
        /\ ~artifacts.content_json.written
        /\ \A a \in DOMAIN artifacts : ~artifacts[a].written
        /\ calls = restored
        /\ cost_file.kind = "json" => load_costs(cost_file) = restored
        /\ epc = "idle" /\ e_log = <<>> /\ statements = <<>>
        /\ qpc = "idle" /\ qa_pairs = <<>>
        /\ Len(api_log) = 1
        /\ events = <<>>

\* a run with every stage enabled whose parsing backend raised, in a process
\* that had restored an entry
C30_Witness ==
    /\ BackendRaised
    /\ ppc = "raised"
    /\ ~skip_parse /\ ~skip_extract /\ ~skip_qa
    /\ restored # <<>>

\* the ledger entries appended since the process started
RunEntries == SubSeq(calls, Len(restored) + 1, Len(calls))

\* C21: every ledger entry appended during a pipeline run (the parsing call,
\* each extraction call, each question-generation and answer-generation call)
\* carries that run's job id, so that after a full run the summary's
\* job-filtered total cost is the sum of the costs of all entries appended
\* during the run.
C21_RunEntriesCarryJobId ==
    ppc \notin {"idle", "off"} =>
        /\ \A i \in 1..Len(RunEntries) : RunEntries[i].job_id = job_id
        /\ (FullRunReturned /\ restored = <<>>) =>
               summary.total_cost_usd = SumCost(RunEntries)

\* the part of C21 that holds: the parsing entry carries the run's job id
ParseEntryCarriesJobId ==
    ppc \notin {"idle", "off"} =>
        \A i \in 1..Len(RunEntries) :
            RunEntries[i].service = "llamaparse" => RunEntries[i].job_id = job_id

\* C22: on every path on which run() returns normally, the early halt on an
\* ordering violation included, every ledger entry appended during that run
\* has been persisted to the ledger file before run() returns.
C22_ReturnedRunPersisted ==
    (ppc = "returned" /\ RunEntries # <<>>) =>
        /\ cost_file.kind = "json"
        /\ load_costs(cost_file) = calls

\* the part of C22 that holds: the halt of lines 174-176 (parsing skipped,
\* extraction enabled) leaves no entry unsaved, because none was appended
HaltWithoutChunksAppendsNothing ==
    (ppc = "returned" /\ skip_parse /\ ~skip_extract) => RunEntries = <<>>

\* the flags ask for a stage whose input stage is skipped
FlagsViolateOrder == (skip_parse /\ ~skip_extract) \/ (skip_extract /\ ~skip_qa)

\* no artifact of the run exists
NoArtifactWritten == \A a \in DOMAIN artifacts : ~artifacts[a].written

\* C23: if the skip flags violate the dependency rule (extract enabled with
\* parse skipped, or generate enabled with extract skipped), the run halts
\* immediately: no parsing or completion backend call is made and no artifact
\* (content, QA, summary) is written in that run.
C23_ViolationHaltsImmediately ==
    (ppc \notin {"idle", "off"} /\ FlagsViolateOrder) =>
        /\ api_log = <<>>
        /\ NoArtifactWritten

\* the part of C23 that holds: with parsing skipped as well, a violating run
\* calls no backend and writes nothing
ViolationWithoutParseHalts ==
    (ppc \notin {"idle", "off"} /\ FlagsViolateOrder /\ skip_parse) =>
        /\ api_log = <<>>
        /\ NoArtifactWritten
        /\ ~InSeq("finalize", events)

\* the run went through lines 207-218 and returned
RunCompleted ==
    /\ ppc = "returned"
    /\ InSeq("finalize", events)
    /\ InSeq("save_summary", events)
    /\ InSeq("save_costs", events)

\* C24: when no stage raises, run() reaches summary finalization, summary
\* save and ledger persistence exactly when (skip_parse => skip_extract) and
\* (skip_extract => skip_qa); for the other flag combinations it returns
\* early without finalizing the summary.
C24_CompletesIffFlagsInOrder ==
    /\ ppc = "returned" => (RunCompleted <=> ~FlagsViolateOrder)
    /\ (ppc \notin {"idle", "off"} /\ FlagsViolateOrder) =>
           /\ ~InSeq("finalize", events)
           /\ ~InSeq("save_summary", events)
           /\ ~InSeq("save_costs", events)
           /\ summary.finalized = <<>>
    /\ (ppc \in {"finalize", "save_summary", "save_costs"}) => ~FlagsViolateOrder

\* a run that parsed, skipped extraction and generation, and completed
C24_Witness ==
    /\ RunCompleted
    /\ ~skip_parse /\ skip_extract /\ skip_qa
    /\ summary.finalized # <<>>

\* lines 152-218: the steps of a run with no stage skipped, in program order
RunOrder ==
    <<"parse", "export_content", "extract", "generate", "export_qa",
      "finalize", "save_summary", "save_costs">>

\* the stage that makes a backend call
StageOf(operation) ==
    IF operation = "parse" THEN 1 ELSE IF operation = "extraction" THEN 2 ELSE 3

\* C25: in a run with no stage skipped the events occur strictly in the
\* order parse, content export, extract, generate, QA export, summary
\* finalize, summary save, ledger persist, each after the previous has
\* completed: the extractor works only between content export and the
\* "extract" event, the generator only between "extract" and "generate",
\* backend calls follow the stage order, the content artifact holds the
\* chunks parse returned and the QA artifact the pairs generate returned.
C25_EventsInProgramOrder ==
    (ppc \notin {"idle", "off"} /\ ~skip_parse /\ ~skip_extract /\ ~skip_qa) =>
        /\ Len(events) <= Len(RunOrder)
        /\ events = SubSeq(RunOrder, 1, Len(events))
        /\ epc = "loop" => events = SubSeq(RunOrder, 1, 2)
        /\ e_log # <<>> => Len(events) >= 2
        /\ qpc \notin {"idle", "done"} => events = SubSeq(RunOrder, 1, 3)
        /\ \A m, n \in 1..Len(api_log) :
              m < n => StageOf(api_log[m].operation) <= StageOf(api_log[n].operation)
        /\ artifacts.content_json.written =>
              /\ InSeq("parse", events)
              /\ Len(artifacts.content_json.content) = Len(chunks)
              /\ \A k \in 1..Len(chunks) : artifacts.content_json.content[k] = chunks[k]
        /\ artifacts.qa_jsonl.written =>
              /\ InSeq("generate", events)
              /\ qpc = "done"
              /\ Len(artifacts.qa_jsonl.content) = Len(qa_pairs)
        /\ artifacts.summary_json.written => InSeq("finalize", events)

\* a run with no stage skipped has returned with a pair exported
C25_Witness ==
    /\ FullRunReturned
    /\ events = RunOrder
    /\ artifacts.content_json.written
    /\ artifacts.qa_jsonl.written
    /\ qa_pairs # <<>>

(***************************************************************************)
(* Pipeline._get_output_path (pipeline.py)                                 *)
(***************************************************************************)
\* str.split(sep): the pieces between the separators
RECURSIVE Split(_, _)
Split(s, sep) ==
    IF \A i \in 1..Len(s) : s[i] # sep THEN <<s>>
    ELSE LET i == CHOOSE n \in 1..Len(s) : s[n] = sep /\ \A k \in 1..(n - 1) : s[k] # sep
         IN  <<SubSeq(s, 1, i - 1)>> \o Split(SubSeq(s, i + 1, Len(s)), sep)

\* sep.join(parts)
RECURSIVE Join(_, _)
Join(parts, sep) ==
    IF parts = <<>> THEN <<>>
    ELSE IF Len(parts) = 1 THEN parts[1]
    ELSE parts[1] \o <<sep>> \o Join(Tail(parts), sep)

\* the components pathlib keeps of a relative path segment: the pieces between
\* slashes, the empty ones and the "." ones dropped
IsComponent(c) == c # <<>> /\ c # <<".">>
PathParts(s) == SelectSeq(Split(s, "/"), IsComponent)

\* a relative Path, by its components
RelPath(parts) == [parts |-> parts]

\* directory / new_filename, new_filename never starting with a slash
PathJoin(directory, segment) == RelPath(directory.parts \o PathParts(segment))

\* _get_output_path (lines 221-248)
get_output_path(original_path, job) ==
    LET n == Len(original_path.parts)
        directory == RelPath(SubSeq(original_path.parts, 1, n - 1))
        filename == original_path.parts[n]
        name_parts == Split(filename, ".")
        new_filename ==
            IF Len(name_parts) > 1
            THEN Join(SubSeq(name_parts, 1, Len(name_parts) - 1), ".")
                 \o <<"_">> \o job \o <<".">> \o name_parts[Len(name_parts)]
            ELSE filename \o <<"_">> \o job
    IN  PathJoin(directory, new_filename)

\* the configured output paths: out/qa.j, out/q.t.j and out/qa
OutputPaths ==
    {RelPath(<<<<"o", "u", "t">>, <<"q", "a", ".", "j">>>>),
     RelPath(<<<<"o", "u", "t">>, <<"q", ".", "t", ".", "j">>>>),
     RelPath(<<<<"o", "u", "t">>, <<"q", "a">>>>)}

\* the job ids: run takes any string
JobChars == {"a", "/", "."}
JobStrings == UNION {[1..n -> JobChars] : n \in 0..MaxJobLen}

PathInit ==
    /\ out_path \in OutputPaths
    /\ derived = <<>>

PathIdle ==
    /\ out_path = RelPath(<<<<"o", "u", "t">>, <<"q", "a", ".", "j">>>>)
    /\ derived = <<>>

\* one call of _get_output_path with the configured path
DerivePath ==
    /\ Len(derived) < MaxDerive
    /\ \E job \in JobStrings :
          derived' = Append(derived, [job |-> job, path |-> get_output_path(out_path, job)])
    /\ UNCHANGED out_path
    /\ UNCHANGED <<chunkVars, ledgerVars, qaVars, extractVars, pipeVars, logVars, procVars>>

\* C16: for a fixed configured path the derivation is an injective function
\* of the job id. Two derivations with the same job id return the same path
\* and two derivations with different job ids return different paths,
\* whether the base name has an extension or not.
C16_PathInjectiveInJob ==
    \A i, k \in 1..Len(derived) :
        (derived[i].job = derived[k].job) <=> (derived[i].path = derived[k].path)

\* the part of C16 that holds: the same job id gives the same path, and job
\* ids without a slash give different paths
PathInjectiveWithoutSlash ==
    \A i, k \in 1..Len(derived) :
        /\ derived[i].job = derived[k].job => derived[i].path = derived[k].path
        /\ (/\ derived[i].job # derived[k].job
            /\ \A n \in 1..Len(derived[i].job) : derived[i].job[n] # "/"
            /\ \A n \in 1..Len(derived[k].job) : derived[k].job[n] # "/")
           => derived[i].path # derived[k].path

(***************************************************************************)
(* setup_logging (utils/logging.py)                                        *)
(***************************************************************************)
\* Logger.addHandler: the handler is appended unless this same object is
\* already in the list
addHandler(hs, hdlr) ==
    IF \E i \in 1..Len(hs) : hs[i] = hdlr THEN hs ELSE Append(hs, hdlr)

\* the logger "pdf2qa" before setup_logging: no handler, level NOTSET
LogIdle ==
    /\ handlers = <<>>
    /\ log_level = "NOTSET"
    /\ setup_calls = <<>>

\* setup_logging (lines 10-42); the StreamHandler it creates is a new object
\* at every call
SetupLogging ==
    /\ Len(setup_calls) < MaxSetup
    /\ \E verbose \in BOOLEAN :
          LET level == IF verbose THEN "DEBUG" ELSE "INFO"
              console_handler == [object |-> Len(setup_calls) + 1, level |-> level]
          IN  /\ log_level' = level
              /\ handlers' = addHandler(handlers, console_handler)
              /\ setup_calls' = Append(setup_calls, verbose)
    /\ UNCHANGED <<chunkVars, ledgerVars, qaVars, extractVars, pipeVars, pathVars, procVars>>

\* C18: setup_logging is idempotent with respect to handlers. After any
\* number of calls, with any verbose values, the pdf2qa logger has exactly
\* one handler.
C18_OneHandler == setup_calls # <<>> => Len(handlers) = 1

\* what holds instead: one handler per call, and the level of the last call
HandlerPerCall ==
    /\ Len(handlers) = Len(setup_calls)
    /\ setup_calls # <<>> =>
          log_level = (IF setup_calls[Len(setup_calls)] THEN "DEBUG" ELSE "INFO")

(***************************************************************************)
(* Two processes sharing one ledger file (utils/cost_tracker.py)           *)
(***************************************************************************)
Procs == {1, 2}

\* each process runs its own job
ProcJob(p) == IF p = 1 THEN "jobA" ELSE "jobB"

\* the entries a process appended itself
Own(p) == SubSeq(proc_calls[p], Len(proc_loaded[p]) + 1, Len(proc_calls[p]))

ProcInit ==
    /\ disk \in RunFiles
    /\ proc_pc = [p \in Procs |-> "new"]
    /\ proc_calls = [p \in Procs |-> <<>>]
    /\ proc_loaded = [p \in Procs |-> <<>>]
    /\ writes = <<>>
    /\ wall = FirstNow

ProcIdle ==
    /\ disk = MissingFile
    /\ proc_pc = [p \in Procs |-> "off"]
    /\ proc_calls = [p \in Procs |-> <<>>]
    /\ proc_loaded = [p \in Procs |-> <<>>]
    /\ writes = <<>>
    /\ wall = FirstNow

\* lines 48-64: the process constructs its CostTracker, which restores the
\* calls from the file as it is now
NewCostTracker(p) ==
    /\ proc_pc[p] = "new"
    /\ proc_calls' = [proc_calls EXCEPT ![p] = load_costs(disk)]
    /\ proc_loaded' = [proc_loaded EXCEPT ![p] = load_costs(disk)]
    /\ proc_pc' = [proc_pc EXCEPT ![p] = "running"]
    /\ UNCHANGED <<disk, writes, wall>>
    /\ UNCHANGED <<chunkVars, ledgerVars, qaVars, extractVars, pipeVars, pathVars, logVars>>

\* lines 94-138: the process records a call of its own job
ProcTrackCall(p) ==
    /\ proc_pc[p] = "running"
    /\ Len(Own(p)) < MaxOwn
    /\ \E call \in {LlamaParseEntry(1, ProcJob(p), NoneMeta, wall),
                     OpenAIEntry(GenModel, GenUsage.prompt_tokens,
                                 GenUsage.completion_tokens, "extraction", ProcJob(p),
                                 NoneMeta, wall)} :
          proc_calls' = [proc_calls EXCEPT ![p] = Append(@, call)]
    /\ wall' = wall + 1
    /\ UNCHANGED <<disk, proc_pc, proc_loaded, writes>>
    /\ UNCHANGED <<chunkVars, ledgerVars, qaVars, extractVars, pipeVars, pathVars, logVars>>

\* a plausible slip: the file is opened for update, and what its calls hold
\* beyond the process's own is kept
SaveResult_keeps(own_calls, before) ==
    IF Len(load_costs(before)) > Len(own_calls)
    THEN JsonFile(own_calls \o SubSeq(load_costs(before), Len(own_calls) + 1,
                                      Len(load_costs(before))))
    ELSE JsonFile(own_calls)

\* lines 69-75: the file after a completed dump holds the process's calls and
\* their summary, whatever it held before
SaveResult(own_calls, before) == JsonFile(own_calls)

\* lines 68-74: save_costs opens the file for writing, which empties it; an
\* open that fails is logged and save_costs is over
SaveCostsOpen(p) ==
    /\ proc_pc[p] = "running"
    /\ \/ /\ disk' = CorruptFile
          /\ proc_pc' = [proc_pc EXCEPT ![p] = "writing"]
       \/ /\ disk' = disk
          /\ proc_pc' = [proc_pc EXCEPT ![p] = "saved"]
    /\ UNCHANGED <<proc_calls, proc_loaded, writes, wall>>
    /\ UNCHANGED <<chunkVars, ledgerVars, qaVars, extractVars, pipeVars, pathVars, logVars>>

\* lines 74-77: json.dump writes the data; a dump that fails, or that writes
\* over what another process is writing, can leave a file json.load rejects
SaveCostsDump(p) ==
    /\ proc_pc[p] = "writing"
    /\ \/ /\ disk' = SaveResult(proc_calls[p], disk)
          /\ writes' = Append(writes, p)
       \/ /\ disk' = CorruptFile
          /\ UNCHANGED writes
    /\ proc_pc' = [proc_pc EXCEPT ![p] = "saved"]
    /\ UNCHANGED <<proc_calls, proc_loaded, wall>>
    /\ UNCHANGED <<chunkVars, ledgerVars, qaVars, extractVars, pipeVars, pathVars, logVars>>

(***************************************************************************)
(* Claims about two processes, checked under SharedSpec                    *)
(***************************************************************************)
\* every entry of the sequence is among the calls the file holds
FileHolds(entries) ==
    \A i \in 1..Len(entries) :
        \E j \in 1..Len(load_costs(disk)) : load_costs(disk)[j] = entries[i]

\* the process whose dump completed last
LastWriter == writes[Len(writes)]

\* C27: with two processes that each restore the same ledger file at start,
\* append their own entries and persist at the end, the last writer wins: a
\* readable file holds exactly the calls of the process that wrote last, so
\* it holds the other process's entries only if the last writer had restored
\* them; an interleaving that loses one process's entries is reachable.
C27_LastWriterWins ==
    (disk.kind = "json" /\ writes # <<>>) =>
        /\ load_costs(disk) = proc_calls[LastWriter]
        /\ \A q \in Procs \ {LastWriter} :
              FileHolds(Own(q)) <=>
                  \A i \in 1..Len(Own(q)) :
                      \E j \in 1..Len(proc_loaded[LastWriter]) :
                          proc_loaded[LastWriter][j] = Own(q)[i]

\* the lost update: both processes have saved, both dumps completed, and the
\* file holds none of the entries process 1 recorded
C27_Witness ==
    /\ \A p \in Procs : proc_pc[p] = "saved"
    /\ writes = <<1, 2>>
    /\ disk.kind = "json"
    /\ Own(1) # <<>>
    /\ Own(2) # <<>>
    /\ \A i \in 1..Len(Own(1)) :
          \A j \in 1..Len(load_costs(disk)) : load_costs(disk)[j] # Own(1)[i]

(***************************************************************************)
(* Specifications                                                          *)
(***************************************************************************)
ChunkNext ==
    \/ ChunkReturnWhole
    \/ ChunkEnterLoop
    \/ ChunkIterate
    \/ ChunkReturn

\* one call of _chunk_text on any text and sizes
ChunkSpecInit == ChunkInit /\ LedgerIdle /\ QAIdle /\ ExtractIdle /\ PipeIdle /\ PathIdle /\ LogIdle /\ ProcIdle

ChunkSpec == ChunkSpecInit /\ [][ChunkNext]_vars

LedgerNext ==
    \/ TrackOpenAICall
    \/ TrackLlamaParseCall
    \/ GetSummary
    \/ PrintSummary
    \/ SaveCosts

\* one process using the ledger: construction, then record, summary, print
\* and save operations
LedgerSpecInit == ChunkIdle /\ LedgerInit /\ QAIdle /\ ExtractIdle /\ PipeIdle /\ PathIdle /\ LogIdle /\ ProcIdle

LedgerSpec == LedgerSpecInit /\ [][LedgerNext]_vars

PathNext == DerivePath

\* calls of _get_output_path on one pipeline
PathSpecInit ==
    ChunkIdle /\ LedgerIdle /\ QAIdle /\ ExtractIdle /\ PipeIdle /\ PathInit /\ LogIdle /\ ProcIdle

PathSpec == PathSpecInit /\ [][PathNext]_vars

LogNext == SetupLogging

\* calls of setup_logging in one process
LogSpecInit ==
    ChunkIdle /\ LedgerIdle /\ QAIdle /\ ExtractIdle /\ PipeIdle /\ PathIdle /\ LogIdle /\ ProcIdle

LogSpec == LogSpecInit /\ [][LogNext]_vars

SummaryNext ==
    \/ TrackOpenAICall
    \/ TrackLlamaParseCall
    \/ FinalizeCall

\* one client recording calls and finalizing the summary of its job
SummarySpecInit == ChunkIdle /\ LedgerInit /\ QAIdle /\ ExtractIdle /\ SummaryInit /\ PathIdle /\ LogIdle /\ ProcIdle

SummarySpec == SummarySpecInit /\ [][SummaryNext]_vars

QANext ==
    \/ StartBatch
    \/ QuestionCall
    \/ AnswerSkip
    \/ AnswerCall
    \/ PairBatch
    \/ GenerateReturn

\* one call of generate on any statement list, with a fresh ledger
QASpecInit == ChunkIdle /\ LedgerIdle /\ QAInit /\ ExtractIdle /\ PipeIdle /\ PathIdle /\ LogIdle /\ ProcIdle

QASpec == QASpecInit /\ [][QANext]_vars

ExtractNext ==
    \/ ExtractChunk
    \/ ExtractReturn

ExtractSpecInit == ChunkIdle /\ LedgerIdle /\ QAIdle /\ ExtractInit /\ PipeIdle /\ PathIdle /\ LogIdle /\ ProcIdle

\* one call of extract on any chunk list, with a fresh ledger
ExtractSpec == ExtractSpecInit /\ [][ExtractNext]_vars

PipeNext ==
    \/ RunStart
    \/ SkipParse
    \/ ParseDocument
    \/ ExportContent
    \/ ExtractGate
    \/ ExtractChunk
    \/ ExtractReturn
    \/ EndExtract
    \/ QAGate
    \/ StartBatch
    \/ QuestionCall
    \/ AnswerSkip
    \/ AnswerCall
    \/ PairBatch
    \/ GenerateReturn
    \/ EndGenerate
    \/ ExportQA
    \/ FinalizeSummary
    \/ SaveSummary
    \/ SaveCostsAndReturn

\* one process: the ledger and the pipeline are constructed, then one run
PipeSpecInit == ChunkIdle /\ LedgerInitFrom(RunFiles) /\ QAIdle /\ ExtractIdle /\ PipeInit /\ PathIdle /\ LogIdle /\ ProcIdle

PipeSpec == PipeSpecInit /\ [][PipeNext]_vars

SharedNext ==
    \/ \E p \in Procs : NewCostTracker(p)
    \/ \E p \in Procs : ProcTrackCall(p)
    \/ \E p \in Procs : SaveCostsOpen(p)
    \/ \E p \in Procs : SaveCostsDump(p)

\* two processes, each constructing its own CostTracker on the same file,
\* recording calls and saving once at its end, in any interleaving
SharedSpecInit == ChunkIdle /\ LedgerIdle /\ QAIdle /\ ExtractIdle /\ PipeIdle /\ PathIdle /\ LogIdle /\ ProcInit

SharedSpec == SharedSpecInit /\ [][SharedNext]_vars

====
